---- MODULE Spec2Model ----
(***************************************************************************)
(* Session Store (useChatSessions hook), Quota Tracker                     *)
(* (SecureRateLimitingService), the send and regenerate paths of the Chat  *)
(* Controller (Chatbox) and the document input (ChatInput) of the design24 *)
(* chat front-end.                                                         *)
(*                                                                         *)
(* Texts are TLA+ strings; a message id and a session id are made unique   *)
(* by a counter that stands for the random suffix of the generated id.     *)
(* A synchronous handler is one action; an asynchronous handler is one     *)
(* action for every stretch between two awaits or timers (the UI thread    *)
(* runs each stretch to completion).  Date.now() is read once per action   *)
(* and never runs back.                                                    *)
(***************************************************************************)
EXTENDS Integers, Sequences, FiniteSets, TLC

(* ---------------------------- bounds ----------------------------------- *)
MaxSessions == 1        \* sessions created by createNewChat in one run
MaxMsgIds == 1          \* messages created in one run
MaxTime == 1            \* last value of the clock
MaxWriteFailures == 1   \* localStorage.setItem calls that throw in one run
MaxSends == 2           \* incrementUsage calls in one run
MaxDay == 1             \* last day of the calendar
MaxCalls == 1           \* sends that pass the local quota check in one run
MaxBatches == 1         \* document batches that are being extracted at a time

(* ------------------------- program constants --------------------------- *)
MAX_MESSAGES_PER_CHAT == 200
TitleMax == 50
TitleKeep == 47
PreviewLen == 100

NewChatTitle == "New Chat"
UntitledTitle == "Untitled Chat"
Ellipsis == "..."

NoChat == "null"                       \* currentChatId === null
Undefined == [kind |-> "undefined"]    \* images: undefined (argument omitted)
Absent == [kind |-> "absent"]          \* object without the key images
Images(items) == [kind |-> "array", items |-> items]

VARIABLES
  chatSessions,     \* useState<Record<string, ChatSession>>
  currentChatId,    \* useState<string | null>
  storage,          \* localStorage entry under STORAGE_KEY
  pc,               \* "init" before the load effect ran, "ready" after
  now,              \* Date.now()
  nextSid,          \* sessions created so far + 1 (random suffix of chat ids)
  nextId,           \* messages created so far + 1 (random suffix of msg ids)
  failuresLeft,     \* environment: localStorage.setItem calls that may still throw
  appended,         \* history: per session, the messages handed to addMessage
  lastOp            \* history: the last operation and its inputs

storeVars == <<chatSessions, currentChatId, storage, pc, now, nextSid, nextId,
               failuresLeft, appended, lastOp>>

VARIABLES
  rateLimit,        \* localStorage entry under secure_rate_limit
  deviceKey,        \* localStorage entry under device_fingerprint
  fingerprint,      \* environment: what generateDeviceFingerprint returns now
  today,            \* environment: the day new Date().toDateString() names
  validationCache,  \* localStorage entry under server_validation_cache
  sends,            \* incrementUsage calls so far
  lastCall          \* history: the last Quota Tracker call, its input and result

quotaVars == <<rateLimit, deviceKey, fingerprint, today, validationCache, sends,
               lastCall>>

VARIABLES
  inflight,         \* handleSendMessage invocations suspended at an await or a
                    \* timer: what each closed over and where it stands
  isLoading,        \* useState(false)
  currentUserRole,  \* useState(userRole)
  usingPersonalKey, \* useState(geminiService.usingPersonalKey())
  calls,            \* remote calls issued so far
  callBudget        \* environment: remote calls the user may cause in this run

VARIABLES
  documents,        \* ChatInput: useState<ExtractedDocument[]>([])
  isExtracting,     \* ChatInput: useState(false)
  batches,          \* document batches whose Promise.all has not settled
  toasts            \* the toasts of the last ChatInput handler step

inputVars == <<documents, isExtracting, batches, toasts>>

chatVars == <<inflight, isLoading, currentUserRole, usingPersonalKey, calls,
              callBudget, inputVars>>

(* ------------------------- string helpers ------------------------------ *)
Min(a, b) == IF a < b THEN a ELSE b
Max(a, b) == IF a > b THEN a ELSE b

\* String.prototype.substring(a, b) for 0 <= a <= b
Substring(s, a, b) == SubSeq(s, a + 1, Min(b, Len(s)))

RECURSIVE TrimStart(_)
TrimStart(s) ==
  IF Len(s) > 0 /\ SubSeq(s, 1, 1) = " " THEN TrimStart(SubSeq(s, 2, Len(s))) ELSE s

RECURSIVE TrimEnd(_)
TrimEnd(s) ==
  IF Len(s) > 0 /\ SubSeq(s, Len(s), Len(s)) = " "
  THEN TrimEnd(SubSeq(s, 1, Len(s) - 1)) ELSE s

\* String.prototype.trim()
Trim(s) == TrimEnd(TrimStart(s))

RECURSIVE Repeat(_, _)
Repeat(c, n) == IF n = 0 THEN "" ELSE c \o Repeat(c, n - 1)

(* ------------------------- session store: data ------------------------- *)
ChatId(n) == "chat-" \o ToString(n)

\* position of a key in Object.values(): keys keep their insertion order,
\* and chat ids are inserted in the order of their counter
KeyIndex(id) == CHOOSE n \in (0 - 1)..(MaxSessions + 1) : ChatId(n) = id

EmptyMap == <<>>

\* { ...map, [id]: session }
Put(map, id, session) ==
  IF id \in DOMAIN map THEN [map EXCEPT ![id] = session] ELSE map @@ (id :> session)

Remove(map, id) == [k \in DOMAIN map \ {id} |-> map[k]]

ChatMessage(id, message, isUser, timestamp, images) ==
  [id |-> id, message |-> message, isUser |-> isUser, timestamp |-> timestamp,
   images |-> images]

\* createNewChat: the session literal
NewSession(id, t) ==
  [id |-> id, title |-> NewChatTitle, lastMessage |-> "", timestamp |-> t,
   messageCount |-> 0, messages |-> <<>>, isCustomTitle |-> FALSE]

(* ------------------------- JSON round trip ----------------------------- *)
\* JSON.stringify omits a key whose value is undefined
StringifyMessage(m) ==
  IF m.images = Undefined THEN [m EXCEPT !.images = Absent] ELSE m

Stringify(map) ==
  [id \in DOMAIN map |->
     [map[id] EXCEPT !.messages = [i \in 1..Len(@) |-> StringifyMessage(@[i])]]]

StorageNull == [kind |-> "null"]          \* getItem returns null
StorageInvalid == [kind |-> "invalid"]    \* a value JSON.parse throws on
StorageJson(map) == [kind |-> "json", value |-> Stringify(map)]

\* the session map the persistent store holds; an erased entry is the empty map
Persisted == IF storage.kind = "json" THEN storage.value ELSE EmptyMap

(* ------------------------- session store: updaters --------------------- *)
\* variant: the session touched longest ago is taken
MostRecent_Oldest(map) ==
  LET ids == DOMAIN map
      top == {i \in ids : \A j \in ids : map[i].timestamp <= map[j].timestamp}
  IN  map[CHOOSE i \in top : \A j \in top : KeyIndex(i) <= KeyIndex(j)]

\* sessions.sort((a, b) => b.timestamp - a.timestamp)[0]; the sort is stable
MostRecent(map) ==
  LET ids == DOMAIN map
      top == {i \in ids : \A j \in ids : map[j].timestamp <= map[i].timestamp}
  IN  map[CHOOSE i \in top : \A j \in top : KeyIndex(i) <= KeyIndex(j)]

\* variant: the cap drops the newest messages
CapMessages_DropNewest(messages) ==
  IF Len(messages) > MAX_MESSAGES_PER_CHAT
  THEN SubSeq(messages, 1, MAX_MESSAGES_PER_CHAT)
  ELSE messages

\* addMessage, lines 96-99
CapMessages(messages) ==
  IF Len(messages) > MAX_MESSAGES_PER_CHAT
  THEN SubSeq(messages, Len(messages) - MAX_MESSAGES_PER_CHAT + 1, Len(messages))
  ELSE messages

\* variant: a message of exactly TitleMax characters is truncated too
DeriveTitle_Truncate50(session, message, isUser) ==
  IF session.title = NewChatTitle /\ isUser /\ Trim(message) # ""
     /\ ~session.isCustomTitle
  THEN IF Len(message) >= TitleMax
       THEN Substring(message, 0, TitleKeep) \o Ellipsis
       ELSE message
  ELSE session.title

\* variant: the title is derived without looking at isCustomTitle
DeriveTitle_IgnoreCustom(session, message, isUser) ==
  IF session.title = NewChatTitle /\ isUser /\ Trim(message) # ""
  THEN IF Len(message) > TitleMax
       THEN Substring(message, 0, TitleKeep) \o Ellipsis
       ELSE message
  ELSE session.title

\* addMessage, lines 102-105
DeriveTitle(session, message, isUser) ==
  IF session.title = NewChatTitle /\ isUser /\ Trim(message) # ""
     /\ ~session.isCustomTitle
  THEN IF Len(message) > TitleMax
       THEN Substring(message, 0, TitleKeep) \o Ellipsis
       ELSE message
  ELSE session.title

\* variant: a session that is not in the map is made anew for the message
AddMessageUpdater_Recreate(prev, cid, newMessage, t) ==
  LET session == IF cid \in DOMAIN prev THEN prev[cid] ELSE NewSession(cid, t)
      messages == CapMessages(Append(session.messages, newMessage))
  IN  Put(prev, cid,
          [session EXCEPT
             !.title = DeriveTitle(session, newMessage.message, newMessage.isUser),
             !.lastMessage = Substring(newMessage.message, 0, PreviewLen),
             !.timestamp = t,
             !.messageCount = Len(messages),
             !.messages = messages])

\* variant: the new message is put in front of the list
AddMessageUpdater_Prepend(prev, cid, newMessage, t) ==
  IF cid \notin DOMAIN prev THEN prev
  ELSE LET session == prev[cid]
           messages == CapMessages(<<newMessage>> \o session.messages)
       IN  Put(prev, cid,
               [session EXCEPT
                  !.title = DeriveTitle(session, newMessage.message, newMessage.isUser),
                  !.lastMessage = Substring(newMessage.message, 0, PreviewLen),
                  !.timestamp = t,
                  !.messageCount = Len(messages),
                  !.messages = messages])

\* variant: the preview is the whole text of the message
AddMessageUpdater_WholeText(prev, cid, newMessage, t) ==
  IF cid \notin DOMAIN prev THEN prev
  ELSE LET session == prev[cid]
           messages == CapMessages(Append(session.messages, newMessage))
       IN  Put(prev, cid,
               [session EXCEPT
                  !.title = DeriveTitle(session, newMessage.message, newMessage.isUser),
                  !.lastMessage = newMessage.message,
                  !.timestamp = t,
                  !.messageCount = Len(messages),
                  !.messages = messages])

\* variant: the session keeps its timestamp
AddMessageUpdater_KeepTime(prev, cid, newMessage, t) ==
  IF cid \notin DOMAIN prev THEN prev
  ELSE LET session == prev[cid]
           messages == CapMessages(Append(session.messages, newMessage))
       IN  Put(prev, cid,
               [session EXCEPT
                  !.title = DeriveTitle(session, newMessage.message, newMessage.isUser),
                  !.lastMessage = Substring(newMessage.message, 0, PreviewLen),
                  !.messageCount = Len(messages),
                  !.messages = messages])

\* addMessage, the state updater (lines 91-119); cid is the currentChatId the
\* callback closed over
AddMessageUpdater(prev, cid, newMessage, t) ==
  IF cid \notin DOMAIN prev THEN prev
  ELSE LET session == prev[cid]
           messages == CapMessages(Append(session.messages, newMessage))
       IN  Put(prev, cid,
               [session EXCEPT
                  !.title = DeriveTitle(session, newMessage.message, newMessage.isUser),
                  !.lastMessage = Substring(newMessage.message, 0, PreviewLen),
                  !.timestamp = t,
                  !.messageCount = Len(messages),
                  !.messages = messages])

\* replaceLastAssistantMessage, lines 187-193 (0-based index, -1 when none)
LastUserIndex(messages) ==
  LET us == {i \in 1..Len(messages) : messages[i].isUser}
  IN  IF us = {} THEN 0 - 1 ELSE (CHOOSE i \in us : \A j \in us : j <= i) - 1

\* replaceLastAssistantMessage, lines 195-199 (0-based cursor)
AssistantRunEnd(messages, first) ==
  LET stops == {c \in first..Len(messages) :
                  c = Len(messages) \/ messages[c + 1].isUser}
  IN  CHOOSE c \in stops : \A d \in stops : c <= d

\* Array.prototype.splice(start, deleteCount, ...items), 0-based start
Splice(messages, start, deleteCount, items) ==
  SubSeq(messages, 1, start) \o items
    \o SubSeq(messages, start + deleteCount + 1, Len(messages))

\* variant: without a user message the new text is added at the end
ReplacedMessages_Append(messages, newMessageText, newId, t) ==
  LET lastUserIndex == LastUserIndex(messages)
      firstAssistantIndex == IF lastUserIndex >= 0 THEN lastUserIndex + 1 ELSE 0
      cursor == AssistantRunEnd(messages, firstAssistantIndex)
      newAssistant == ChatMessage(newId, newMessageText, FALSE, t, Absent)
  IN  IF firstAssistantIndex >= Len(messages) \/ lastUserIndex < 0
      THEN Append(messages, newAssistant)
      ELSE Splice([messages EXCEPT ![firstAssistantIndex + 1] =
                     [@ EXCEPT !.message = newMessageText, !.timestamp = t]],
                  firstAssistantIndex + 1, cursor - firstAssistantIndex - 1, <<>>)

\* variant: the first assistant message is rewritten, the rest of the run stays
ReplacedMessages_KeepRun(messages, newMessageText, newId, t) ==
  LET lastUserIndex == LastUserIndex(messages)
      firstAssistantIndex == IF lastUserIndex >= 0 THEN lastUserIndex + 1 ELSE 0
      newAssistant == ChatMessage(newId, newMessageText, FALSE, t, Absent)
  IN  IF firstAssistantIndex >= Len(messages)
      THEN Append(messages, newAssistant)
      ELSE [messages EXCEPT ![firstAssistantIndex + 1] =
              [@ EXCEPT !.message = newMessageText, !.timestamp = t]]

\* replaceLastAssistantMessage, lines 185-230
ReplacedMessages(messages, newMessageText, newId, t) ==
  LET lastUserIndex == LastUserIndex(messages)
      firstAssistantIndex == IF lastUserIndex >= 0 THEN lastUserIndex + 1 ELSE 0
      newAssistant == ChatMessage(newId, newMessageText, FALSE, t, Absent)
  IN  IF firstAssistantIndex >= Len(messages)
      THEN Append(messages, newAssistant)
      ELSE IF messages[firstAssistantIndex + 1].isUser
      THEN Splice(messages, firstAssistantIndex + 1, 0, <<newAssistant>>)
      ELSE LET cursor == AssistantRunEnd(messages, firstAssistantIndex)
               replaced == [messages EXCEPT ![firstAssistantIndex + 1] =
                              [@ EXCEPT !.message = newMessageText, !.timestamp = t]]
           IN  IF cursor - firstAssistantIndex > 1
               THEN Splice(replaced, firstAssistantIndex + 1,
                           cursor - firstAssistantIndex - 1, <<>>)
               ELSE replaced

\* replaceLastAssistantMessage, the state updater (lines 181-243)
ReplaceUpdater(prev, cid, newMessageText, newId, t) ==
  IF cid \notin DOMAIN prev THEN prev
  ELSE IF Len(prev[cid].messages) = 0 THEN prev
  ELSE LET session == prev[cid]
           messages == ReplacedMessages(session.messages, newMessageText, newId, t)
       IN  Put(prev, cid,
               [session EXCEPT
                  !.lastMessage = Substring(newMessageText, 0, PreviewLen),
                  !.timestamp = t,
                  !.messages = messages,
                  !.messageCount = Len(messages)])

\* renameChatSession, lines 159-163
RenamedSession(session, newTitle) ==
  [session EXCEPT
     !.title = IF Trim(newTitle) # "" THEN Trim(newTitle) ELSE UntitledTitle,
     !.isCustomTitle = TRUE]

(* ------------------------- earlier runs --------------------------------- *)
\* What an earlier page life left in the store: session chat-0, created and
\* then fed the given inputs through addMessage, one by one.
Turn(message, isUser) == [message |-> message, isUser |-> isUser]

PriorMessage(inputs, k) ==
  ChatMessage(k - Len(inputs), inputs[k].message, inputs[k].isUser, 0, Undefined)

\* addMessage applied to inputs lo..hi in turn, starting from map (the first
\* half is evaluated before the second starts, which keeps the evaluation flat)
RECURSIVE Replay(_, _, _, _)
Replay(map, inputs, lo, hi) ==
  IF lo > hi THEN map
  ELSE IF lo = hi
  THEN AddMessageUpdater(map, ChatId(0), PriorMessage(inputs, lo), 0)
  ELSE LET mid == (lo + hi) \div 2
           half == Replay(map, inputs, lo, mid)
       IN  IF DOMAIN half = {} THEN half ELSE Replay(half, inputs, mid + 1, hi)

Created == Put(EmptyMap, ChatId(0), NewSession(ChatId(0), 0))

Prior(inputs) ==
  [storage |-> StorageJson(Replay(Created, inputs, 1, Len(inputs))),
   appended |-> [id \in {ChatId(0)} |->
                   [msgs |-> [k \in 1..Len(inputs) |->
                                StringifyMessage(PriorMessage(inputs, k))],
                    onlyAppends |-> TRUE]]]

NoPrior(st) == [storage |-> st, appended |-> EmptyMap]

\* a question answered twice
SmallHistory == <<Turn("q", TRUE), Turn("a", FALSE), Turn("b", FALSE)>>

\* n alternating turns, a question first
CapHistory(n) == [k \in 1..n |-> IF k % 2 = 1 THEN Turn("q", TRUE) ELSE Turn("a", FALSE)]

\* a session that holds the greeting and one more answer, and no question
AssistantOnly == <<Turn("w", FALSE), Turn("a", FALSE)>>

SmallPriors == {NoPrior(StorageNull), NoPrior(StorageInvalid), Prior(SmallHistory)}

NoUserPriors == {Prior(AssistantOnly)}

\* a session filled to the cap, and one that has already dropped a message
CapPriors ==
  {Prior(CapHistory(n)) : n \in MAX_MESSAGES_PER_CHAT..(MAX_MESSAGES_PER_CHAT + 1)}

EmptyPriors == {NoPrior(StorageNull), NoPrior(StorageInvalid)}

\* A session older than chat-0, created and written to one tick before the
\* clock starts; its only question reads "New Chat".
OlderChatId == ChatId(0 - 1)
OlderTime == 0 - 1
OlderHistory == <<Turn(NewChatTitle, TRUE), Turn("a", FALSE)>>

OlderMessage(k) ==
  ChatMessage(k - 10, OlderHistory[k].message, OlderHistory[k].isUser, OlderTime,
              Undefined)

OlderSession ==
  AddMessageUpdater(
    AddMessageUpdater(Put(EmptyMap, OlderChatId, NewSession(OlderChatId, OlderTime)),
                      OlderChatId, OlderMessage(1), OlderTime),
    OlderChatId, OlderMessage(2), OlderTime)[OlderChatId]

\* the older session and the session of SmallHistory, in the order they were made
TwoSessions ==
  [storage |-> StorageJson(Put(Put(EmptyMap, OlderChatId, OlderSession), ChatId(0),
                               Replay(Created, SmallHistory, 1, Len(SmallHistory))[ChatId(0)])),
   appended |-> Put(Prior(SmallHistory).appended, OlderChatId,
                    [msgs |-> [k \in 1..Len(OlderHistory) |->
                                 StringifyMessage(OlderMessage(k))],
                     onlyAppends |-> TRUE])]

TwoPriors == {TwoSessions}

(* ------------------------- inputs --------------------------------------- *)
Text50 == Repeat("x", TitleMax)
Text51 == Repeat("y", TitleMax + 1)
Text101 == Repeat("z", PreviewLen + 1)
Reply101 == Repeat("r", PreviewLen + 1)

\* (message, isUser, images) of an addMessage call: a picture sent with a
\* blank text, a question of 50 characters, a question of 51, an answer
AddInputs ==
  {<<" ", TRUE, Images(<<"img">>)>>, <<Text50, TRUE, Undefined>>,
   <<Text51, TRUE, Undefined>>, <<Text101, FALSE, Undefined>>}

ReplaceTexts == {Reply101, "r2"}

Titles == {" ", " Plan ", NewChatTitle}

\* the ids a caller may pass: those of this run and those the map holds
AllChatIds == {ChatId(n) : n \in 0..MaxSessions} \cup DOMAIN chatSessions

(* ------------------------- session store: actions ----------------------- *)
InitStore(priors, throws) ==
  /\ chatSessions = EmptyMap
  /\ currentChatId = NoChat
  /\ \E p \in priors : storage = p.storage /\ appended = p.appended
  /\ pc = "init"
  /\ now = 0
  /\ nextSid = 1
  /\ nextId = 1
  /\ failuresLeft = throws
  /\ lastOp = [op |-> "none"]

\* Date.now() of this handler
Times == {t \in now..(now + 1) : t <= MaxTime}

\* localStorage.setItem either stores the value or throws
WriteOutcomes == IF failuresLeft > 0 THEN {TRUE, FALSE} ELSE {TRUE}

\* variant: the map is never written
SaveChatSessions_Skip(sessions, ok) ==
  /\ storage' = storage
  /\ failuresLeft' = IF ok THEN failuresLeft ELSE failuresLeft - 1

\* saveChatSessions, lines 49-55: a failed write is logged and swallowed
SaveChatSessions(sessions, ok) ==
  /\ storage' = IF ok THEN StorageJson(sessions) ELSE storage
  /\ failuresLeft' = IF ok THEN failuresLeft ELSE failuresLeft - 1

Wrote(ok) == IF ok THEN "ok" ELSE "failed"

\* variant: a value JSON.parse throws on is an uncaught error of the effect
Loaded_NoCatch(stored, sessions, current) ==
  IF stored.kind = "json"
  THEN [chatSessions |-> stored.value,
        currentChatId |-> IF DOMAIN stored.value # {}
                          THEN MostRecent(stored.value).id
                          ELSE current,
        error |-> FALSE]
  ELSE [chatSessions |-> sessions, currentChatId |-> current,
        error |-> stored.kind = "invalid"]

\* the body of the load effect, lines 30-45: the state it leaves and whether
\* an error leaves the effect; nothing stored skips the block, and a value
\* JSON.parse throws on ends in the catch, which only logs
Loaded(stored, sessions, current) ==
  IF stored.kind = "json"
  THEN [chatSessions |-> stored.value,
        currentChatId |-> IF DOMAIN stored.value # {}
                          THEN MostRecent(stored.value).id
                          ELSE current,
        error |-> FALSE]
  ELSE [chatSessions |-> sessions, currentChatId |-> current, error |-> FALSE]

\* the load effect, lines 29-46
LoadEffect ==
  /\ pc = "init"
  /\ UNCHANGED <<quotaVars, chatVars>>
  /\ pc' = "ready"
  /\ LET loaded == Loaded(storage, chatSessions, currentChatId)
     IN  /\ chatSessions' = loaded.chatSessions
         /\ currentChatId' = loaded.currentChatId
         /\ lastOp' = [op |-> "load", error |-> loaded.error]
  /\ UNCHANGED <<storage, now, nextSid, nextId, failuresLeft, appended>>

\* createNewChat, lines 58-76
CreateNewChat ==
  /\ pc = "ready"
  /\ UNCHANGED <<quotaVars, chatVars>>
  /\ nextSid <= MaxSessions
  /\ \E t \in Times, ok \in WriteOutcomes :
       LET newChatId == ChatId(nextSid)
           updatedSessions == Put(chatSessions, newChatId, NewSession(newChatId, t))
       IN  /\ now' = t
           /\ chatSessions' = updatedSessions
           /\ currentChatId' = newChatId
           /\ SaveChatSessions(updatedSessions, ok)
           /\ appended' = Put(appended, newChatId, [msgs |-> <<>>, onlyAppends |-> TRUE])
           /\ lastOp' = [op |-> "create", chat |-> newChatId, wrote |-> Wrote(ok)]
  /\ nextSid' = nextSid + 1
  /\ UNCHANGED <<pc, nextId>>

\* addMessage, lines 79-122
AddMessage ==
  /\ pc = "ready"
  /\ UNCHANGED <<quotaVars, chatVars>>
  /\ \E in \in AddInputs, t \in Times :
       /\ now' = t
       /\ IF currentChatId = NoChat
          THEN /\ lastOp' = [op |-> "add", chat |-> NoChat, applied |-> FALSE,
                             wrote |-> "none"]
               /\ UNCHANGED <<chatSessions, storage, failuresLeft, appended, nextId>>
          ELSE /\ nextId <= MaxMsgIds
               /\ nextId' = nextId + 1
               /\ LET newMessage == ChatMessage(nextId, in[1], in[2], t, in[3])
                      updated == AddMessageUpdater(chatSessions, currentChatId, newMessage, t)
                  IN  IF currentChatId \notin DOMAIN chatSessions
                      THEN /\ lastOp' = [op |-> "add", chat |-> currentChatId,
                                         applied |-> FALSE, wrote |-> "none"]
                           /\ UNCHANGED <<chatSessions, storage, failuresLeft, appended>>
                      ELSE \E ok \in WriteOutcomes :
                             /\ chatSessions' = updated
                             /\ SaveChatSessions(updated, ok)
                             /\ appended' = [appended EXCEPT ![currentChatId].msgs =
                                               Append(@, newMessage)]
                             /\ lastOp' = [op |-> "add", chat |-> currentChatId,
                                           applied |-> TRUE,
                                           message |-> in[1], isUser |-> in[2],
                                           wrote |-> Wrote(ok)]
  /\ UNCHANGED <<currentChatId, pc, nextSid>>

\* variant: whatever id is asked for becomes the current one
SelectedChatId_Any(sessions, current, chatId) == chatId

\* loadChatSession, lines 126-128: the current id it leaves
SelectedChatId(sessions, current, chatId) ==
  IF chatId \in DOMAIN sessions THEN chatId ELSE current

\* loadChatSession, lines 125-129
LoadChatSession ==
  /\ pc = "ready"
  /\ UNCHANGED <<quotaVars, chatVars>>
  /\ \E chatId \in AllChatIds :
       /\ currentChatId' = SelectedChatId(chatSessions, currentChatId, chatId)
       /\ lastOp' = [op |-> "select", chat |-> chatId]
  /\ UNCHANGED <<chatSessions, storage, pc, now, nextSid, nextId, failuresLeft, appended>>

\* deleteChatSession, lines 132-151
DeleteChatSession ==
  /\ pc = "ready"
  /\ UNCHANGED <<quotaVars, chatVars>>
  /\ \E chatId \in AllChatIds, ok \in WriteOutcomes :
       LET updated == Remove(chatSessions, chatId)
       IN  /\ chatSessions' = updated
           /\ currentChatId' = IF currentChatId = chatId
                               THEN IF DOMAIN updated # {}
                                    THEN MostRecent(updated).id
                                    ELSE NoChat
                               ELSE currentChatId
           /\ SaveChatSessions(updated, ok)
           /\ appended' = Remove(appended, chatId)
           /\ lastOp' = [op |-> "delete", chat |-> chatId,
                         wasCurrent |-> currentChatId = chatId, wrote |-> Wrote(ok)]
  /\ UNCHANGED <<pc, now, nextSid, nextId>>

\* renameChatSession, lines 154-169
RenameChatSession ==
  /\ pc = "ready"
  /\ UNCHANGED <<quotaVars, chatVars>>
  /\ \E chatId \in AllChatIds, newTitle \in Titles :
       IF chatId \notin DOMAIN chatSessions
       THEN /\ lastOp' = [op |-> "rename", chat |-> chatId, applied |-> FALSE,
                          wrote |-> "none"]
            /\ UNCHANGED <<chatSessions, storage, failuresLeft>>
       ELSE \E ok \in WriteOutcomes :
              LET updatedSessions ==
                    Put(chatSessions, chatId, RenamedSession(chatSessions[chatId], newTitle))
              IN  /\ chatSessions' = updatedSessions
                  /\ SaveChatSessions(updatedSessions, ok)
                  /\ lastOp' = [op |-> "rename", chat |-> chatId, applied |-> TRUE,
                                newTitle |-> newTitle, wrote |-> Wrote(ok)]
  /\ UNCHANGED <<currentChatId, pc, now, nextSid, nextId, appended>>

\* clearAllChatSessions, lines 172-176
ClearAllChatSessions ==
  /\ pc = "ready"
  /\ UNCHANGED <<quotaVars, chatVars>>
  /\ chatSessions' = EmptyMap
  /\ currentChatId' = NoChat
  /\ storage' = StorageNull
  /\ appended' = EmptyMap
  /\ lastOp' = [op |-> "clear", wrote |-> "ok"]
  /\ UNCHANGED <<pc, now, nextSid, nextId, failuresLeft>>

\* does replaceLastAssistantMessage create a message (lines 201-218)?
CreatesAssistant(messages) ==
  LET first == IF LastUserIndex(messages) >= 0 THEN LastUserIndex(messages) + 1 ELSE 0
  IN  first >= Len(messages) \/ messages[first + 1].isUser

\* replaceLastAssistantMessage, lines 179-244
ReplaceLastAssistantMessage ==
  /\ pc = "ready"
  /\ UNCHANGED <<quotaVars, chatVars>>
  /\ \E newMessageText \in ReplaceTexts, t \in Times :
       /\ now' = t
       /\ IF \/ currentChatId = NoChat
             \/ currentChatId \notin DOMAIN chatSessions
             \/ Len(chatSessions[currentChatId].messages) = 0
          THEN /\ lastOp' = [op |-> "replace", chat |-> currentChatId, applied |-> FALSE,
                             wrote |-> "none"]
               /\ UNCHANGED <<chatSessions, storage, failuresLeft, appended, nextId>>
          ELSE LET session == chatSessions[currentChatId]
                   creates == CreatesAssistant(session.messages)
                   updated == ReplaceUpdater(chatSessions, currentChatId, newMessageText,
                                             nextId, t)
               IN  /\ creates => nextId <= MaxMsgIds
                   /\ nextId' = IF creates THEN nextId + 1 ELSE nextId
                   /\ \E ok \in WriteOutcomes :
                        /\ chatSessions' = updated
                        /\ SaveChatSessions(updated, ok)
                        /\ appended' = [appended EXCEPT ![currentChatId].onlyAppends = FALSE]
                        /\ lastOp' = [op |-> "replace", chat |-> currentChatId,
                                      applied |-> TRUE,
                                      message |-> newMessageText, wrote |-> Wrote(ok)]
  /\ UNCHANGED <<currentChatId, pc, nextSid>>

(* ------------------------- quota tracker: data --------------------------- *)
Roles == {"admin", "user", "beta"}

Unlimited == 0 - 1

\* USER_ROLE_CONFIGS[role].dailyLimit
DailyLimit == [role \in Roles |-> IF role = "admin" THEN Unlimited ELSE 30]

Devices == {"dA", "dB"}

NoKey == "null"                             \* getItem(DEVICE_ID_KEY) returns null

ZeroUsage == [role \in Roles |-> 0]

RateLimitNull == [kind |-> "null"]          \* getItem(STORAGE_KEY) returns null
RateLimitCorrupt == [kind |-> "corrupt"]    \* a value decrypt or JSON.parse fails on

\* setStoredData: the record, serialized and obfuscated.  The serialized
\* record is ASCII, so btoa accepts the XOR-ed text and decrypt gives it back.
StoredRecord(usage, date, deviceId) ==
  [kind |-> "record", usage |-> usage, date |-> date, deviceId |-> deviceId]

\* getStoredData, lines 70-80: null when nothing readable is stored
HasStoredData(stored) == stored.kind = "record"

\* getDeviceId, lines 33-40: the cached id, else the fingerprint (then cached)
GetDeviceId(key, fp) == IF key = NoKey THEN fp ELSE key

\* resetDailyUsage, lines 87-98
ResetDailyUsage(day, deviceId) == StoredRecord(ZeroUsage, day, deviceId)

\* variant: a record of another day is kept
CheckAndResetIfNewDay_KeepDay(stored, day, deviceId) ==
  IF ~HasStoredData(stored) \/ stored.deviceId # deviceId
  THEN ResetDailyUsage(day, deviceId)
  ELSE stored

\* variant: a record of another device is kept
CheckAndResetIfNewDay_KeepDevice(stored, day, deviceId) ==
  IF ~HasStoredData(stored)
  THEN ResetDailyUsage(day, deviceId)
  ELSE IF stored.date # day
  THEN ResetDailyUsage(day, deviceId)
  ELSE stored

\* variant: nothing is written when no record can be read
CheckAndResetIfNewDay_KeepMissing(stored, day, deviceId) ==
  IF ~HasStoredData(stored)
  THEN stored
  ELSE IF stored.deviceId # deviceId \/ stored.date # day
  THEN ResetDailyUsage(day, deviceId)
  ELSE stored

\* variant: whatever is stored is left as it is
CheckAndResetIfNewDay_Skip(stored, day, deviceId) == stored

\* checkAndResetIfNewDay, lines 100-115: the stored value it leaves
CheckAndResetIfNewDay(stored, day, deviceId) ==
  IF ~HasStoredData(stored) \/ stored.deviceId # deviceId
  THEN ResetDailyUsage(day, deviceId)
  ELSE IF stored.date # day
  THEN ResetDailyUsage(day, deviceId)
  ELSE stored

\* storedData?.usage || zeros, lines 120-125
UsageOf(stored) == IF HasStoredData(stored) THEN stored.usage ELSE ZeroUsage

\* variant: remaining is the plain difference
RateLimitInfo_NoFloor(stored, role) ==
  LET usedToday == UsageOf(stored)[role]
      dailyLimit == DailyLimit[role]
      isUnlimited == dailyLimit = Unlimited
  IN  [role |-> role, usedToday |-> usedToday, dailyLimit |-> dailyLimit,
       isUnlimited |-> isUnlimited,
       remaining |-> IF isUnlimited THEN Unlimited ELSE dailyLimit - usedToday]

\* variant: unlimited is looked for under the sentinel 0
RateLimitInfo_ZeroSentinel(stored, role) ==
  LET usedToday == UsageOf(stored)[role]
      dailyLimit == DailyLimit[role]
      isUnlimited == dailyLimit = 0
  IN  [role |-> role, usedToday |-> usedToday, dailyLimit |-> dailyLimit,
       isUnlimited |-> isUnlimited,
       remaining |-> IF isUnlimited THEN Unlimited ELSE Max(0, dailyLimit - usedToday)]

\* getRateLimitInfo, lines 120-139, on the reconciled record
RateLimitInfo(stored, role) ==
  LET usedToday == UsageOf(stored)[role]
      dailyLimit == DailyLimit[role]
      isUnlimited == dailyLimit = Unlimited
  IN  [role |-> role, usedToday |-> usedToday, dailyLimit |-> dailyLimit,
       isUnlimited |-> isUnlimited,
       remaining |-> IF isUnlimited THEN Unlimited ELSE Max(0, dailyLimit - usedToday)]

\* variant: a send is counted for every role
Incremented_All(usage, role) == [r \in Roles |-> usage[r] + 1]

\* incrementUsage, line 166: usage[userRole] += 1
Incremented(usage, role) == [usage EXCEPT ![role] = @ + 1]

\* variant: a remaining count of 0 still allows a send
LocalCheck_Inclusive(info) == info.isUnlimited \/ info.remaining >= 0

\* canSendMessage, line 144
LocalCheck(info) == info.isUnlimited \/ info.remaining > 0

\* serverValidation.ts: cacheKey = `${deviceId}_${userRole}`
CacheKey(deviceId, role) == <<deviceId, role>>

\* mockServerValidation, lines 30-45: the mocked server always answers valid
MockServerValidation(deviceId, role) == TRUE

\* validateRateLimit, lines 48-74: a cached answer that has not expired, else
\* the server's answer
ValidateRateLimit(cache, deviceId, role, expired) ==
  IF CacheKey(deviceId, role) \in DOMAIN cache /\ ~expired
  THEN cache[CacheKey(deviceId, role)]
  ELSE MockServerValidation(deviceId, role)

(* ------------------------- quota tracker: actions ------------------------ *)
\* what an earlier page life left in the store: nothing, an unreadable value,
\* or a record of day 0 written on device dA after 35, 29 and 31 sends of the
\* three roles
UsedBefore == [role \in Roles |-> IF role = "admin" THEN 35
                                  ELSE IF role = "user" THEN 29 ELSE 31]

QuotaPriors ==
  {[rateLimit |-> RateLimitNull, deviceKey |-> NoKey],
   [rateLimit |-> RateLimitCorrupt, deviceKey |-> "dA"],
   [rateLimit |-> StoredRecord(UsedBefore, 0, "dA"), deviceKey |-> "dA"]}

InitQuota(priors) ==
  /\ \E p \in priors : rateLimit = p.rateLimit /\ deviceKey = p.deviceKey
  /\ fingerprint = "dA"
  /\ today = 0
  /\ validationCache = <<>>
  /\ sends = 0
  /\ lastCall = [op |-> "none"]

\* getRateLimitInfo, lines 117-140
GetRateLimitInfo ==
  /\ UNCHANGED <<storeVars, chatVars>>
  /\ \E role \in Roles :
       LET deviceId == GetDeviceId(deviceKey, fingerprint)
           stored == CheckAndResetIfNewDay(rateLimit, today, deviceId)
       IN  /\ deviceKey' = deviceId
           /\ rateLimit' = stored
           /\ lastCall' = [op |-> "getStatus", role |-> role, pre |-> rateLimit,
                           day |-> today, deviceId |-> deviceId,
                           info |-> RateLimitInfo(stored, role)]
  /\ UNCHANGED <<fingerprint, today, validationCache, sends>>

\* canSendMessage, lines 142-153
CanSendMessage ==
  /\ UNCHANGED <<storeVars, chatVars>>
  /\ \E role \in Roles, expired \in BOOLEAN :
       LET deviceId == GetDeviceId(deviceKey, fingerprint)
           stored == CheckAndResetIfNewDay(rateLimit, today, deviceId)
           info == RateLimitInfo(stored, role)
           localCheck == LocalCheck(info)
           serverCheck == ValidateRateLimit(validationCache, deviceId, role, expired)
           cached == CacheKey(deviceId, role) \in DOMAIN validationCache /\ ~expired
       IN  /\ deviceKey' = deviceId
           /\ rateLimit' = stored
           /\ validationCache' =
                IF localCheck /\ ~cached
                THEN [k \in DOMAIN validationCache \cup {CacheKey(deviceId, role)} |->
                        IF k = CacheKey(deviceId, role) THEN serverCheck
                        ELSE validationCache[k]]
                ELSE validationCache
           /\ lastCall' = [op |-> "canSend", role |-> role, pre |-> rateLimit,
                           day |-> today, deviceId |-> deviceId, info |-> info,
                           result |-> IF localCheck THEN localCheck /\ serverCheck
                                      ELSE FALSE]
  /\ UNCHANGED <<fingerprint, today, sends>>

\* incrementUsage, lines 155-176
IncrementUsage ==
  /\ UNCHANGED <<storeVars, chatVars>>
  /\ sends < MaxSends
  /\ sends' = sends + 1
  /\ \E role \in Roles :
       LET deviceId == GetDeviceId(deviceKey, fingerprint)
           stored == CheckAndResetIfNewDay(rateLimit, today, deviceId)
           usage == Incremented(UsageOf(stored), role)
       IN  /\ deviceKey' = deviceId
           /\ rateLimit' = StoredRecord(usage, today, deviceId)
           /\ lastCall' = [op |-> "recordSend", role |-> role, pre |-> rateLimit,
                           day |-> today, deviceId |-> deviceId]
  /\ UNCHANGED <<fingerprint, today, validationCache>>

\* getUsagePercentage, lines 180-181, on the status it was given; the
\* number it returns need not be whole and is written num / den
UsagePercentage(info) ==
  IF info.isUnlimited THEN [num |-> 0, den |-> 1]
  ELSE IF info.usedToday >= info.dailyLimit THEN [num |-> 100, den |-> 1]
  ELSE [num |-> info.usedToday * 100, den |-> info.dailyLimit]

UnlimitedText == "Khong gioi han tin nhan"

\* getFormattedLimitInfo, lines 187-191, on the status it was given
FormattedLimitInfo(info) ==
  IF info.isUnlimited THEN UnlimitedText
  ELSE ToString(info.usedToday) \o "/" \o ToString(info.dailyLimit) \o " tin nhan"

\* getUsagePercentage, lines 178-182: reads through getRateLimitInfo
GetUsagePercentage ==
  /\ UNCHANGED <<storeVars, chatVars>>
  /\ \E role \in Roles :
       LET deviceId == GetDeviceId(deviceKey, fingerprint)
           stored == CheckAndResetIfNewDay(rateLimit, today, deviceId)
           info == RateLimitInfo(stored, role)
       IN  /\ deviceKey' = deviceId
           /\ rateLimit' = stored
           /\ lastCall' = [op |-> "getPercentage", role |-> role, pre |-> rateLimit,
                           day |-> today, deviceId |-> deviceId, info |-> info,
                           result |-> UsagePercentage(info)]
  /\ UNCHANGED <<fingerprint, today, validationCache, sends>>

\* getFormattedLimitInfo, lines 184-192: reads through getRateLimitInfo
GetFormattedLimitInfo ==
  /\ UNCHANGED <<storeVars, chatVars>>
  /\ \E role \in Roles :
       LET deviceId == GetDeviceId(deviceKey, fingerprint)
           stored == CheckAndResetIfNewDay(rateLimit, today, deviceId)
           info == RateLimitInfo(stored, role)
       IN  /\ deviceKey' = deviceId
           /\ rateLimit' = stored
           /\ lastCall' = [op |-> "getFormatted", role |-> role, pre |-> rateLimit,
                           day |-> today, deviceId |-> deviceId, info |-> info,
                           result |-> FormattedLimitInfo(info)]
  /\ UNCHANGED <<fingerprint, today, validationCache, sends>>

\* midnight passes, possibly while the page is closed
NewDay ==
  /\ UNCHANGED <<storeVars, chatVars>>
  /\ today < MaxDay
  /\ today' = today + 1
  /\ lastCall' = [op |-> "env"]
  /\ UNCHANGED <<rateLimit, deviceKey, fingerprint, validationCache, sends>>

\* the browser, the screen or the time zone changes: another fingerprint
FingerprintChanges ==
  /\ UNCHANGED <<storeVars, chatVars>>
  /\ \E d \in Devices \ {fingerprint} : fingerprint' = d
  /\ lastCall' = [op |-> "env"]
  /\ UNCHANGED <<rateLimit, deviceKey, today, validationCache, sends>>

\* the cached device id is removed from the store
DeviceKeyRemoved ==
  /\ UNCHANGED <<storeVars, chatVars>>
  /\ deviceKey # NoKey
  /\ deviceKey' = NoKey
  /\ lastCall' = [op |-> "env"]
  /\ UNCHANGED <<rateLimit, fingerprint, today, validationCache, sends>>

(* ------------------------- chat controller: send path ------------------- *)
\* the texts the controller writes into a conversation (ASCII transcriptions)
FallbackText == "Xin loi, toi gap loi. Vui long thu lai."
ApiKeyText == "Vui long lam moi trang va nhap khoa API Gemini de tiep tuc."
WelcomeText == "Xin chao! Toi la Tro ly AI cua DESIGN24."

ApiKeyError == "API_KEY_NOT_CONFIGURED"

\* what the user types, and what the remote completion call answers
SendTexts == {"hello"}
ResponseTexts == {"ok"}

\* what the remote completion call rejects with: an Error of the network or
\* the service, the Error of a missing key, a thrown value that is no Error
ThrownError(message) == [kind |-> "Error", message |-> message]
ThrownValue == [kind |-> "value"]
Failures == {ThrownError("Failed to fetch"), ThrownError(ApiKeyError), ThrownValue}

\* variant: the generic text is shown for every failure
ErrorMessage_Generic(error) == FallbackText

\* handleSendMessage, part_002 lines 456-458
ErrorMessage(error) == IF error.kind = "Error" THEN error.message ELSE FallbackText

\* handleSendMessage, the catch block (lines 441-466): the text it appends
CatchText(error) ==
  IF error.kind = "Error" /\ error.message = ApiKeyError
  THEN ApiKeyText
  ELSE ErrorMessage(error)

\* no message: the id a handler holds before its user message exists
NoId == 0 - 1000

\* the closure of one handleSendMessage invocation; userId is the id of the
\* user message it appended
Handler(stage, cid, role, personal, message) ==
  [kind |-> "send", stage |-> stage, cid |-> cid, role |-> role,
   personal |-> personal, message |-> message, userId |-> NoId]

\* the closure of one handleRegenerate invocation; userId is the id of the
\* user message whose text is the prompt
Regenerator(stage, cid, role, personal, message, userId) ==
  [kind |-> "regenerate", stage |-> stage, cid |-> cid, role |-> role,
   personal |-> personal, message |-> message, userId |-> userId]

Drop(seq, i) == SubSeq(seq, 1, i - 1) \o SubSeq(seq, i + 1, Len(seq))

\* addMessage called through the callback of the render the handler ran in:
\* cid is the currentChatId that callback closed over (part_009 lines 79-122)
AddMessageFrom(cid, message, isUser, t) ==
  IF cid = NoChat
  THEN UNCHANGED <<chatSessions, storage, failuresLeft, appended, nextId>>
  ELSE LET newMessage == ChatMessage(nextId, message, isUser, t, Undefined)
       IN  /\ nextId' = nextId + 1
           /\ chatSessions' = AddMessageUpdater(chatSessions, cid, newMessage, t)
           /\ IF cid \in DOMAIN chatSessions
              THEN /\ \E ok \in WriteOutcomes : SaveChatSessions(chatSessions', ok)
                   /\ appended' = [appended EXCEPT ![cid].msgs = Append(@, newMessage)]
              ELSE UNCHANGED <<storage, failuresLeft, appended>>

\* variant: a send is counted whatever key is in use
CountsUsage_Always(personal) == TRUE

\* lines 434 and 520: if (!usingPersonalKey)
CountsUsage(personal) == ~personal

\* did the addMessage call find its session?
Resolves(cid) == cid # NoChat /\ cid \in DOMAIN chatSessions

\* the welcome effect has not run yet for the current session (lines 334-347);
\* effects run before the next event is handled
WelcomeDue ==
  /\ currentChatId \in DOMAIN chatSessions
  /\ Len(chatSessions[currentChatId].messages) = 0

InitChatWith(roles, keys, budget) ==
  /\ inflight = <<>>
  /\ isLoading = FALSE
  /\ currentUserRole \in roles
  /\ usingPersonalKey \in keys
  /\ calls = 0
  /\ callBudget = budget
  /\ documents = <<>>
  /\ isExtracting = FALSE
  /\ batches = <<>>
  /\ toasts = {}

InitChat(roles, keys) == InitChatWith(roles, keys, MaxCalls)

\* the welcome effect, lines 334-347
WelcomeEffect ==
  /\ pc = "ready"
  /\ WelcomeDue
  /\ \E t \in Times :
       /\ now' = t
       /\ AddMessageFrom(currentChatId, WelcomeText, FALSE, t)
       /\ lastOp' = [op |-> "welcome", target |-> currentChatId,
                     applied |-> Resolves(currentChatId)]
  /\ UNCHANGED <<currentChatId, pc, nextSid>>
  /\ UNCHANGED <<quotaVars, chatVars>>

\* handleSendMessage up to its first suspension (lines 360-417).  The input
\* accepts a submit only with a current session and while isLoading is false
\* (ChatInput, disabled and isLoading); the application is online and configured.
SendMessage ==
  /\ pc = "ready"
  /\ ~WelcomeDue
  /\ currentChatId # NoChat
  /\ ~isLoading
  /\ \E message \in SendTexts, t \in Times, expired \in BOOLEAN :
       LET role == currentUserRole
           deviceId == GetDeviceId(deviceKey, fingerprint)
           stored == CheckAndResetIfNewDay(rateLimit, today, deviceId)
           info == RateLimitInfo(stored, role)
           localCheck == LocalCheck(info)
           cached == CacheKey(deviceId, role) \in DOMAIN validationCache /\ ~expired
           canSend == IF usingPersonalKey THEN TRUE
                      ELSE localCheck /\ ValidateRateLimit(validationCache, deviceId,
                                                           role, expired)
           waits == ~usingPersonalKey /\ localCheck /\ ~cached
           handler(stage) == Handler(stage, currentChatId, role, usingPersonalKey, message)
       IN  /\ now' = t
           /\ IF usingPersonalKey
              THEN UNCHANGED <<rateLimit, deviceKey, lastCall>>
              ELSE /\ deviceKey' = deviceId
                   /\ rateLimit' = stored
                   /\ lastCall' = [op |-> "canSend", role |-> role, pre |-> rateLimit,
                                   day |-> today, deviceId |-> deviceId, info |-> info,
                                   result |-> canSend]
           /\ IF waits
              THEN \* validateRateLimit asks the server: the handler waits
                   /\ calls < callBudget
                   /\ calls' = calls + 1
                   /\ inflight' = Append(inflight, handler("validating"))
                   /\ lastOp' = [op |-> "send", outcome |-> "validating",
                                 target |-> "none", applied |-> FALSE]
                   /\ UNCHANGED <<chatSessions, storage, failuresLeft, appended, nextId,
                                  isLoading>>
              ELSE IF ~canSend
              THEN \* the toast, and nothing else
                   /\ lastOp' = [op |-> "send", outcome |-> "blocked",
                                 target |-> "none", applied |-> FALSE]
                   /\ UNCHANGED <<chatSessions, storage, failuresLeft, appended, nextId,
                                  isLoading, inflight, calls>>
              ELSE \* the user message is added and the remote call is issued
                   /\ calls < callBudget
                   /\ calls' = calls + 1
                   /\ AddMessageFrom(currentChatId, message, TRUE, t)
                   /\ isLoading' = TRUE
                   /\ inflight' = Append(inflight,
                                         [handler("calling") EXCEPT !.userId = nextId])
                   /\ lastOp' = [op |-> "send", outcome |-> "calling",
                                 target |-> currentChatId,
                                 applied |-> Resolves(currentChatId)]
  /\ UNCHANGED <<currentChatId, pc, nextSid>>
  /\ UNCHANGED <<fingerprint, today, validationCache, sends>>
  /\ UNCHANGED <<currentUserRole, usingPersonalKey, callBudget, inputVars>>

\* handleSendMessage resumes with the server's answer (serverValidation.ts
\* lines 58-68, then part_002 lines 389-417)
SendValidated ==
  /\ \E i \in DOMAIN inflight, t \in Times :
       LET h == inflight[i]
           deviceId == GetDeviceId(deviceKey, fingerprint)
           isValid == MockServerValidation(deviceId, h.role)
       IN  /\ h.stage = "validating"
           /\ now' = t
           /\ validationCache' =
                [k \in DOMAIN validationCache \cup {CacheKey(deviceId, h.role)} |->
                   IF k = CacheKey(deviceId, h.role) THEN isValid ELSE validationCache[k]]
           /\ IF isValid
              THEN /\ AddMessageFrom(h.cid, h.message, TRUE, t)
                   /\ isLoading' = TRUE
                   /\ inflight' = [inflight EXCEPT ![i].stage = "calling",
                                                   ![i].userId = nextId]
                   /\ lastOp' = [op |-> "validated", target |-> h.cid,
                                 applied |-> Resolves(h.cid)]
              ELSE /\ inflight' = Drop(inflight, i)
                   /\ lastOp' = [op |-> "validated", target |-> "none", applied |-> FALSE]
                   /\ UNCHANGED <<chatSessions, storage, failuresLeft, appended, nextId,
                                  isLoading>>
  /\ UNCHANGED <<currentChatId, pc, nextSid>>
  /\ UNCHANGED <<rateLimit, deviceKey, fingerprint, today, sends, lastCall>>
  /\ UNCHANGED <<currentUserRole, usingPersonalKey, calls, callBudget, inputVars>>

\* the remote completion call answers (lines 417-440): the typing animation
\* starts, its timer is set, and the finally block clears isLoading
ReplyArrives ==
  /\ \E i \in DOMAIN inflight, response \in ResponseTexts :
       /\ inflight[i].kind = "send"
       /\ inflight[i].stage = "calling"
       /\ inflight' = [inflight EXCEPT ![i].stage = "typing", ![i].message = response]
       /\ lastOp' = [op |-> "reply", target |-> "none", applied |-> FALSE]
  /\ isLoading' = FALSE
  /\ UNCHANGED <<chatSessions, currentChatId, storage, pc, now, nextSid, nextId,
                 failuresLeft, appended>>
  /\ UNCHANGED quotaVars
  /\ UNCHANGED <<currentUserRole, usingPersonalKey, calls, callBudget, inputVars>>

\* the remote completion call rejects (lines 441-469)
ReplyFails ==
  /\ \E i \in DOMAIN inflight, error \in Failures, t \in Times :
       LET h == inflight[i]
       IN  /\ h.kind = "send"
           /\ h.stage = "calling"
           /\ now' = t
           /\ AddMessageFrom(h.cid, CatchText(error), FALSE, t)
           /\ inflight' = Drop(inflight, i)
           /\ lastOp' = [op |-> "failed", target |-> h.cid, applied |-> Resolves(h.cid),
                         error |-> error, userId |-> h.userId]
  /\ isLoading' = FALSE
  /\ UNCHANGED <<currentChatId, pc, nextSid>>
  /\ UNCHANGED quotaVars
  /\ UNCHANGED <<currentUserRole, usingPersonalKey, calls, callBudget, inputVars>>

\* the timer of the typing animation fires (lines 430-436, up to the await
\* inside incrementUsage)
TypingDone ==
  /\ \E i \in DOMAIN inflight, t \in Times :
       LET h == inflight[i]
           deviceId == GetDeviceId(deviceKey, fingerprint)
           stored == CheckAndResetIfNewDay(rateLimit, today, deviceId)
           usage == Incremented(UsageOf(stored), h.role)
       IN  /\ h.kind = "send"
           /\ h.stage = "typing"
           /\ now' = t
           /\ AddMessageFrom(h.cid, h.message, FALSE, t)
           /\ lastOp' = [op |-> "typed", target |-> h.cid, applied |-> Resolves(h.cid),
                         userId |-> h.userId]
           /\ IF ~CountsUsage(h.personal)
              THEN /\ inflight' = Drop(inflight, i)
                   /\ UNCHANGED <<rateLimit, deviceKey, sends, lastCall>>
              ELSE /\ inflight' = [inflight EXCEPT ![i].stage = "reporting"]
                   /\ deviceKey' = deviceId
                   /\ rateLimit' = StoredRecord(usage, today, deviceId)
                   /\ sends' = sends + 1
                   /\ lastCall' = [op |-> "recordSend", role |-> h.role,
                                   pre |-> rateLimit, day |-> today,
                                   deviceId |-> deviceId]
  /\ UNCHANGED <<currentChatId, pc, nextSid>>
  /\ UNCHANGED <<fingerprint, today, validationCache>>
  /\ UNCHANGED <<isLoading, currentUserRole, usingPersonalKey, calls, callBudget,
                 inputVars>>

\* reportUsage returns (serverValidation.ts lines 77-90) and the handler reads
\* the status for the display (part_002 line 437)
UsageReported ==
  /\ \E i \in DOMAIN inflight :
       LET h == inflight[i]
           deviceId == GetDeviceId(deviceKey, fingerprint)
           stored == CheckAndResetIfNewDay(rateLimit, today, deviceId)
       IN  /\ h.stage = "reporting"
           /\ inflight' = Drop(inflight, i)
           /\ deviceKey' = deviceId
           /\ rateLimit' = stored
           /\ lastCall' = [op |-> "getStatus", role |-> h.role, pre |-> rateLimit,
                           day |-> today, deviceId |-> deviceId,
                           info |-> RateLimitInfo(stored, h.role)]
           /\ lastOp' = [op |-> "reported", target |-> "none", applied |-> FALSE]
  /\ UNCHANGED <<chatSessions, currentChatId, storage, pc, now, nextSid, nextId,
                 failuresLeft, appended>>
  /\ UNCHANGED <<fingerprint, today, validationCache, sends>>
  /\ UNCHANGED <<isLoading, currentUserRole, usingPersonalKey, calls, callBudget,
                 inputVars>>

(* ------------------------- chat controller: no current session --------- *)
\* the map after addMessage was called through a callback that closed over
\* cid (part_009 lines 80 and 95-97): nothing is queued when cid is null
AddedThrough(map, cid, newMessage, t) ==
  IF cid = NoChat THEN map ELSE AddMessageUpdater(map, cid, newMessage, t)

\* handleSendMessage called while currentChatId is null, up to its first
\* suspension (lines 360-417): createNewChat runs (lines 364-367), and the
\* handler goes on with the callbacks of the render it was created in, whose
\* currentChatId is still null
SendWithoutSession ==
  /\ pc = "ready"
  /\ currentChatId = NoChat
  /\ ~isLoading
  /\ nextSid <= MaxSessions
  /\ nextSid' = nextSid + 1
  /\ \E message \in SendTexts, t \in Times, ok \in WriteOutcomes, expired \in BOOLEAN :
       LET newChatId == ChatId(nextSid)
           updatedSessions == Put(chatSessions, newChatId, NewSession(newChatId, t))
           closed == currentChatId
           role == currentUserRole
           deviceId == GetDeviceId(deviceKey, fingerprint)
           stored == CheckAndResetIfNewDay(rateLimit, today, deviceId)
           info == RateLimitInfo(stored, role)
           localCheck == LocalCheck(info)
           cached == CacheKey(deviceId, role) \in DOMAIN validationCache /\ ~expired
           canSend == IF usingPersonalKey THEN TRUE
                      ELSE localCheck /\ ValidateRateLimit(validationCache, deviceId,
                                                           role, expired)
           waits == ~usingPersonalKey /\ localCheck /\ ~cached
           handler(stage) == Handler(stage, closed, role, usingPersonalKey, message)
           newMessage == ChatMessage(nextId, message, TRUE, t, Undefined)
           sent == canSend /\ ~waits
           after == IF sent THEN AddedThrough(updatedSessions, closed, newMessage, t)
                    ELSE updatedSessions
       IN  /\ now' = t
           /\ currentChatId' = newChatId
           /\ chatSessions' = after
           /\ SaveChatSessions(after, ok)
           /\ appended' = Put(appended, newChatId,
                              [msgs |-> IF sent /\ closed # NoChat
                                        THEN <<newMessage>> ELSE <<>>,
                               onlyAppends |-> TRUE])
           /\ nextId' = IF sent /\ closed # NoChat THEN nextId + 1 ELSE nextId
           /\ IF usingPersonalKey
              THEN UNCHANGED <<rateLimit, deviceKey, lastCall>>
              ELSE /\ deviceKey' = deviceId
                   /\ rateLimit' = stored
                   /\ lastCall' = [op |-> "canSend", role |-> role, pre |-> rateLimit,
                                   day |-> today, deviceId |-> deviceId, info |-> info,
                                   result |-> canSend]
           /\ IF waits
              THEN /\ calls < callBudget
                   /\ calls' = calls + 1
                   /\ inflight' = Append(inflight, handler("validating"))
                   /\ lastOp' = [op |-> "sendNoSession", outcome |-> "validating",
                                 chat |-> newChatId, message |-> message]
                   /\ UNCHANGED isLoading
              ELSE IF ~canSend
              THEN /\ lastOp' = [op |-> "sendNoSession", outcome |-> "blocked",
                                 chat |-> newChatId, message |-> message]
                   /\ UNCHANGED <<isLoading, inflight, calls>>
              ELSE /\ calls < callBudget
                   /\ calls' = calls + 1
                   /\ isLoading' = TRUE
                   /\ inflight' = Append(inflight,
                                         [handler("calling") EXCEPT !.userId = nextId])
                   /\ lastOp' = [op |-> "sendNoSession", outcome |-> "calling",
                                 chat |-> newChatId, message |-> message]
  /\ UNCHANGED pc
  /\ UNCHANGED <<fingerprint, today, validationCache, sends>>
  /\ UNCHANGED <<currentUserRole, usingPersonalKey, callBudget, inputVars>>

(* ------------------------- chat controller: regenerate ------------------ *)
\* what the remote completion call answers to a repeated question
RegenTexts == {"again"}

\* replaceLastAssistantMessage called through the callback of the render the
\* handler ran in: cid is the currentChatId that callback closed over
\* (part_009 lines 179-244)
ReplaceFrom(cid, newMessageText, t) ==
  IF cid = NoChat
  THEN UNCHANGED <<chatSessions, storage, failuresLeft, appended, nextId>>
  ELSE /\ chatSessions' = ReplaceUpdater(chatSessions, cid, newMessageText, nextId, t)
       /\ IF cid \in DOMAIN chatSessions /\ Len(chatSessions[cid].messages) > 0
          THEN /\ nextId' = IF CreatesAssistant(chatSessions[cid].messages)
                            THEN nextId + 1 ELSE nextId
               /\ \E ok \in WriteOutcomes : SaveChatSessions(chatSessions', ok)
               /\ appended' = [appended EXCEPT ![cid].onlyAppends = FALSE]
          ELSE UNCHANGED <<storage, failuresLeft, appended, nextId>>

\* did the replaceLastAssistantMessage call find a session with messages?
Replaces(cid) ==
  cid # NoChat /\ cid \in DOMAIN chatSessions /\ Len(chatSessions[cid].messages) > 0

\* handleRegenerate up to its suspension (lines 473-513).  The button is on
\* the last message of the current session when that is an assistant message
\* and isLoading is false (canRegenerate); the application is online and
\* configured.  The quota is not asked.
Regenerate ==
  /\ pc = "ready"
  /\ ~WelcomeDue
  /\ currentChatId \in DOMAIN chatSessions
  /\ ~isLoading
  /\ LET messages == chatSessions[currentChatId].messages
         lastUserIndex == LastUserIndex(messages)
     IN  /\ Len(messages) > 0
         /\ ~messages[Len(messages)].isUser
         /\ IF lastUserIndex < 0 \/ messages[lastUserIndex + 1].message = ""
            THEN \* no last user message: the handler returns
                 /\ lastOp' = [op |-> "regenerate", outcome |-> "ignored",
                               target |-> "none", applied |-> FALSE]
                 /\ UNCHANGED <<isLoading, inflight, calls>>
            ELSE /\ calls < callBudget
                 /\ calls' = calls + 1
                 /\ isLoading' = TRUE
                 /\ inflight' = Append(inflight,
                                       Regenerator("calling", currentChatId,
                                                   currentUserRole, usingPersonalKey,
                                                   messages[lastUserIndex + 1].message,
                                                   messages[lastUserIndex + 1].id))
                 /\ lastOp' = [op |-> "regenerate", outcome |-> "calling",
                               target |-> currentChatId, applied |-> FALSE]
  /\ UNCHANGED <<chatSessions, currentChatId, storage, pc, now, nextSid, nextId,
                 failuresLeft, appended>>
  /\ UNCHANGED quotaVars
  /\ UNCHANGED <<currentUserRole, usingPersonalKey, callBudget, inputVars>>

\* the remote completion call answers the regenerate request (lines 513-524):
\* the timer of the replacement is set and the finally block clears isLoading
RegenArrives ==
  /\ \E i \in DOMAIN inflight, response \in RegenTexts :
       /\ inflight[i].kind = "regenerate"
       /\ inflight[i].stage = "calling"
       /\ inflight' = [inflight EXCEPT ![i].stage = "typing", ![i].message = response]
       /\ lastOp' = [op |-> "regenReply", target |-> "none", applied |-> FALSE]
  /\ isLoading' = FALSE
  /\ UNCHANGED <<chatSessions, currentChatId, storage, pc, now, nextSid, nextId,
                 failuresLeft, appended>>
  /\ UNCHANGED quotaVars
  /\ UNCHANGED <<currentUserRole, usingPersonalKey, calls, callBudget, inputVars>>

\* the remote completion call rejects the regenerate request (lines 525-532)
RegenFails ==
  /\ \E i \in DOMAIN inflight, error \in Failures, t \in Times :
       LET h == inflight[i]
       IN  /\ h.kind = "regenerate"
           /\ h.stage = "calling"
           /\ now' = t
           /\ ReplaceFrom(h.cid, ErrorMessage(error), t)
           /\ inflight' = Drop(inflight, i)
           /\ lastOp' = [op |-> "regenFailed", target |-> h.cid,
                         applied |-> Replaces(h.cid), error |-> error,
                         userId |-> h.userId]
  /\ isLoading' = FALSE
  /\ UNCHANGED <<currentChatId, pc, nextSid>>
  /\ UNCHANGED quotaVars
  /\ UNCHANGED <<currentUserRole, usingPersonalKey, calls, callBudget, inputVars>>

\* the timer of the replacement fires (lines 517-521, up to the await inside
\* incrementUsage)
RegenDone ==
  /\ \E i \in DOMAIN inflight, t \in Times :
       LET h == inflight[i]
           deviceId == GetDeviceId(deviceKey, fingerprint)
           stored == CheckAndResetIfNewDay(rateLimit, today, deviceId)
           usage == Incremented(UsageOf(stored), h.role)
       IN  /\ h.kind = "regenerate"
           /\ h.stage = "typing"
           /\ now' = t
           /\ ReplaceFrom(h.cid, h.message, t)
           /\ lastOp' = [op |-> "regenerated", target |-> h.cid,
                         applied |-> Replaces(h.cid), userId |-> h.userId,
                         message |-> h.message]
           /\ IF ~CountsUsage(h.personal)
              THEN /\ inflight' = Drop(inflight, i)
                   /\ UNCHANGED <<rateLimit, deviceKey, sends, lastCall>>
              ELSE /\ inflight' = [inflight EXCEPT ![i].stage = "reporting"]
                   /\ deviceKey' = deviceId
                   /\ rateLimit' = StoredRecord(usage, today, deviceId)
                   /\ sends' = sends + 1
                   /\ lastCall' = [op |-> "recordSend", role |-> h.role,
                                   pre |-> rateLimit, day |-> today,
                                   deviceId |-> deviceId]
  /\ UNCHANGED <<currentChatId, pc, nextSid>>
  /\ UNCHANGED <<fingerprint, today, validationCache>>
  /\ UNCHANGED <<isLoading, currentUserRole, usingPersonalKey, calls, callBudget,
                 inputVars>>

(* ------------------------- chat input: documents ------------------------ *)
MAX_DOCUMENTS == 2
MAX_DOCUMENT_SIZE == 20 * 1024 * 1024

\* String.prototype.toLowerCase()
RECURSIVE ToLowerCase(_)
ToLowerCase(s) ==
  LET upper == "ABCDEFGHIJKLMNOPQRSTUVWXYZ"
      lower == "abcdefghijklmnopqrstuvwxyz"
      c == SubSeq(s, 1, 1)
      at == {k \in 1..26 : SubSeq(upper, k, k) = c}
  IN  IF Len(s) = 0 THEN ""
      ELSE (IF at = {} THEN c ELSE LET k == CHOOSE k \in at : TRUE
                                   IN  SubSeq(lower, k, k))
             \o ToLowerCase(SubSeq(s, 2, Len(s)))

\* String.prototype.endsWith(suffix)
EndsWith(s, suffix) ==
  Len(s) >= Len(suffix) /\ SubSeq(s, Len(s) - Len(suffix) + 1, Len(s)) = suffix

IsPDF(file) == EndsWith(ToLowerCase(file.name), ".pdf")
IsWord(file) ==
  EndsWith(ToLowerCase(file.name), ".docx") \/ EndsWith(ToLowerCase(file.name), ".doc")

\* a file the user picks or drops; readable says whether the PDF or Word
\* parser can read it
DocFile(name, size, readable) == [name |-> name, size |-> size, readable |-> readable]

PickedFiles ==
  {DocFile("a.pdf", 1000, TRUE), DocFile("B.DOCX", 1000, TRUE),
   DocFile("c.pdf", 1000, FALSE), DocFile("n.txt", 1000, TRUE),
   DocFile("big.pdf", MAX_DOCUMENT_SIZE + 1, TRUE)}

\* what one pick or one drop hands over: one file, or two different files
FileLists ==
  {<<f>> : f \in PickedFiles}
    \cup {<<p[1], p[2]>> : p \in {q \in PickedFiles \X PickedFiles : q[1] # q[2]}}

\* extractTextFromDocument, part_008 lines 196-222: the promise it returns
\* fulfils with the document or rejects with an Error
ExtractTextFromDocument(file) ==
  IF IsPDF(file)
  THEN IF file.readable
       THEN [ok |-> TRUE, doc |-> [fileName |-> file.name, fileType |-> "pdf"]]
       ELSE [ok |-> FALSE, message |-> "Khong the doc file PDF"]
  ELSE IF IsWord(file)
  THEN IF file.readable
       THEN [ok |-> TRUE,
             doc |-> [fileName |-> file.name,
                      fileType |-> IF EndsWith(ToLowerCase(file.name), ".docx")
                                   THEN "docx" ELSE "doc"]]
       ELSE [ok |-> FALSE, message |-> "Khong the doc file Word"]
  ELSE [ok |-> FALSE, message |-> "Dinh dang file khong duoc ho tro"]

Toast(title, about) == [title |-> title, about |-> about]

IsDocument(file) == IsPDF(file) \/ IsWord(file)
FitsSize(file) == file.size <= MAX_DOCUMENT_SIZE
ValidDocument(file) == IsDocument(file) /\ FitsSize(file)

\* the toasts of the validation loop, one for every file it skips
ValidationToasts(files) ==
  {Toast("invalidFormat", files[k].name) : k \in {j \in DOMAIN files : ~IsDocument(files[j])}}
    \cup {Toast("tooLarge", files[k].name) :
            k \in {j \in DOMAIN files : IsDocument(files[j]) /\ ~FitsSize(files[j])}}

\* the input of the page accepts the user's actions (ChatInput props disabled
\* and isLoading)
InputEnabled == pc = "ready" /\ currentChatId # NoChat /\ ~isLoading

\* handleDocumentSelect up to its await, part_004 lines 147-194; the file
\* input is disabled while isExtracting and when MAX_DOCUMENTS are attached
HandleDocumentSelect ==
  /\ InputEnabled
  /\ ~isExtracting
  /\ Len(documents) < MAX_DOCUMENTS
  /\ Len(batches) < MaxBatches
  /\ \E files \in FileLists :
       /\ lastOp' = [op |-> "pick", files |-> files]
       /\ IF Len(documents) + Len(files) > MAX_DOCUMENTS
          THEN /\ toasts' = {Toast("tooMany", "")}
               /\ UNCHANGED <<isExtracting, batches>>
          ELSE LET validFiles == SelectSeq(files, ValidDocument)
               IN  /\ toasts' = ValidationToasts(files)
                   /\ IF Len(validFiles) = 0
                      THEN UNCHANGED <<isExtracting, batches>>
                      ELSE /\ isExtracting' = TRUE
                           /\ batches' = Append(batches, validFiles)
  /\ UNCHANGED documents
  /\ UNCHANGED <<chatSessions, currentChatId, storage, pc, now, nextSid, nextId,
                 failuresLeft, appended>>
  /\ UNCHANGED quotaVars
  /\ UNCHANGED <<inflight, isLoading, currentUserRole, usingPersonalKey, calls,
                 callBudget>>

\* processFiles up to the await of its document part, part_004 lines 306-401
\* (files dropped on the input)
ProcessFiles ==
  /\ InputEnabled
  /\ Len(batches) < MaxBatches
  /\ \E files \in FileLists :
       LET documentFiles == SelectSeq(files, IsDocument)
           room == MAX_DOCUMENTS - Len(documents)
           tooMany == Len(documents) + Len(documentFiles) > MAX_DOCUMENTS
           spliced == IF tooMany THEN SubSeq(documentFiles, 1, room) ELSE documentFiles
           validDocumentFiles == SelectSeq(spliced, FitsSize)
       IN  /\ lastOp' = [op |-> "drop", files |-> files]
           /\ toasts' = (IF Len(documentFiles) > 0 /\ tooMany
                         THEN {Toast("tooMany", "")} ELSE {})
                          \cup {Toast("tooLarge", spliced[k].name) :
                                  k \in {j \in DOMAIN spliced : ~FitsSize(spliced[j])}}
           /\ IF Len(validDocumentFiles) = 0
              THEN UNCHANGED <<isExtracting, batches>>
              ELSE /\ isExtracting' = TRUE
                   /\ batches' = Append(batches, validDocumentFiles)
  /\ UNCHANGED documents
  /\ UNCHANGED <<chatSessions, currentChatId, storage, pc, now, nextSid, nextId,
                 failuresLeft, appended>>
  /\ UNCHANGED quotaVars
  /\ UNCHANGED <<inflight, isLoading, currentUserRole, usingPersonalKey, calls,
                 callBudget>>

\* Promise.all of the extractions settles, part_004 lines 194-225 and
\* 400-424: it fulfils when every extraction fulfilled, and rejects with the
\* error of the extraction that rejected first
ExtractionSettles ==
  /\ \E i \in DOMAIN batches :
       LET files == batches[i]
           results == [k \in DOMAIN files |-> ExtractTextFromDocument(files[k])]
           rejected == {k \in DOMAIN files : ~results[k].ok}
       IN  /\ lastOp' = [op |-> "extracted", files |-> files]
           /\ batches' = Drop(batches, i)
           /\ IF rejected = {}
              THEN /\ documents' = documents \o [k \in DOMAIN files |-> results[k].doc]
                   /\ toasts' = {Toast("extracted", ToString(Len(files)))}
              ELSE /\ documents' = documents
                   /\ \E k \in rejected :
                        toasts' = {Toast("extractError", results[k].message)}
  /\ isExtracting' = FALSE
  /\ UNCHANGED <<chatSessions, currentChatId, storage, pc, now, nextSid, nextId,
                 failuresLeft, appended>>
  /\ UNCHANGED quotaVars
  /\ UNCHANGED <<inflight, isLoading, currentUserRole, usingPersonalKey, calls,
                 callBudget>>

\* handleRemoveDocument, part_004 lines 228-230
HandleRemoveDocument ==
  /\ InputEnabled
  /\ \E index \in DOMAIN documents :
       /\ documents' = Drop(documents, index)
       /\ lastOp' = [op |-> "removeDocument", index |-> index]
  /\ toasts' = {}
  /\ UNCHANGED <<isExtracting, batches>>
  /\ UNCHANGED <<chatSessions, currentChatId, storage, pc, now, nextSid, nextId,
                 failuresLeft, appended>>
  /\ UNCHANGED quotaVars
  /\ UNCHANGED <<inflight, isLoading, currentUserRole, usingPersonalKey, calls,
                 callBudget>>

\* midnight passes while the page is open
Midnight ==
  /\ today < MaxDay
  /\ today' = today + 1
  /\ lastOp' = [op |-> "midnight"]
  /\ lastCall' = [op |-> "env"]
  /\ UNCHANGED <<chatSessions, currentChatId, storage, pc, now, nextSid, nextId,
                 failuresLeft, appended>>
  /\ UNCHANGED <<rateLimit, deviceKey, fingerprint, validationCache, sends>>
  /\ UNCHANGED chatVars

NextQuota ==
  \/ GetRateLimitInfo
  \/ CanSendMessage
  \/ IncrementUsage
  \/ NewDay
  \/ FingerprintChanges
  \/ DeviceKeyRemoved

\* the tracker with the views derived from the status
NextViews ==
  \/ GetRateLimitInfo
  \/ GetUsagePercentage
  \/ GetFormattedLimitInfo
  \/ CanSendMessage
  \/ IncrementUsage
  \/ NewDay
  \/ FingerprintChanges
  \/ DeviceKeyRemoved

NextStore ==
  \/ LoadEffect
  \/ CreateNewChat
  \/ AddMessage
  \/ LoadChatSession
  \/ DeleteChatSession
  \/ RenameChatSession
  \/ ClearAllChatSessions
  \/ ReplaceLastAssistantMessage

\* the Chat Controller with its sidebar: sessions are created, selected,
\* deleted and cleared while sends are under way, and midnight may pass
NextChat ==
  \/ LoadEffect
  \/ WelcomeEffect
  \/ SendMessage
  \/ SendValidated
  \/ ReplyArrives
  \/ ReplyFails
  \/ TypingDone
  \/ UsageReported
  \/ CreateNewChat
  \/ LoadChatSession
  \/ DeleteChatSession
  \/ ClearAllChatSessions
  \/ Midnight

vars == <<storeVars, quotaVars, chatVars>>

\* the component the specification is not about stays as constructed
IdleQuota ==
  /\ InitQuota({[rateLimit |-> RateLimitNull, deviceKey |-> NoKey]})
  /\ InitChat({"user"}, {FALSE})
IdleStore == InitStore({NoPrior(StorageNull)}, 0) /\ InitChat({"user"}, {FALSE})

Init == InitStore(SmallPriors, 0) /\ IdleQuota
InitFaulty == InitStore(EmptyPriors, MaxWriteFailures) /\ IdleQuota
InitCap == InitStore(CapPriors, 0) /\ IdleQuota
InitQuotaTracker == IdleStore /\ InitQuota(QuotaPriors)
InitTwo == InitStore(TwoPriors, 0) /\ IdleQuota
InitNoUser == InitStore(NoUserPriors, 0) /\ IdleQuota

\* the controller starts on the stored session of SmallHistory, with the
\* stored usage record of day 0, for any role, with or without a personal key
InitController ==
  /\ InitStore({Prior(SmallHistory)}, 0)
  /\ InitQuota({[rateLimit |-> StoredRecord(UsedBefore, 0, "dA"), deviceKey |-> "dA"]})
  /\ InitChat(Roles, BOOLEAN)

\* the stored usage record is within the limits of the limited roles: role
\* user has one send left, role beta none
UsedWithin == [role \in Roles |-> IF role = "admin" THEN 35
                                  ELSE IF role = "user" THEN 29 ELSE 30]

\* the controller with the regenerate button, on the stored session of
\* SmallHistory
InitRegen ==
  /\ InitStore({Prior(SmallHistory)}, 0)
  /\ InitQuota({[rateLimit |-> StoredRecord(UsedWithin, 0, "dA"), deviceKey |-> "dA"]})
  /\ InitChat(Roles, BOOLEAN)

\* the controller of a user who has not sent anything yet, on the stored
\* session of SmallHistory; the user may cause one remote call more than in
\* the other specifications, so that two requests can overlap
InitRace ==
  /\ InitStore({Prior(SmallHistory)}, 0)
  /\ InitQuota({[rateLimit |-> RateLimitNull, deviceKey |-> NoKey]})
  /\ InitChatWith({"user"}, BOOLEAN, MaxCalls + 1)

\* the input of a page that shows the stored session of SmallHistory
InitDocs == InitStore({Prior(SmallHistory)}, 0) /\ IdleQuota

\* the controller of a user without stored sessions: no session is current
\* after the load effect
InitNoSession ==
  /\ InitStore({NoPrior(StorageNull)}, 0)
  /\ InitQuota({[rateLimit |-> RateLimitNull, deviceKey |-> NoKey]})
  /\ InitChat(Roles, BOOLEAN)

Next == NextStore

\* the operations on one stored session
NextCap ==
  \/ LoadEffect
  \/ AddMessage
  \/ ReplaceLastAssistantMessage
  \/ RenameChatSession
  \/ DeleteChatSession

\* the operations that choose among several sessions
NextTwo ==
  \/ LoadEffect
  \/ CreateNewChat
  \/ AddMessage
  \/ LoadChatSession
  \/ DeleteChatSession

\* the operations that write to a session, on a stored session without a
\* question and on sessions created empty
NextNoUser ==
  \/ LoadEffect
  \/ CreateNewChat
  \/ AddMessage
  \/ ReplaceLastAssistantMessage
  \/ RenameChatSession

\* sending and regenerating in one session
NextRegen ==
  \/ LoadEffect
  \/ SendMessage
  \/ SendValidated
  \/ ReplyArrives
  \/ ReplyFails
  \/ TypingDone
  \/ UsageReported
  \/ Regenerate
  \/ RegenArrives
  \/ RegenFails
  \/ RegenDone
  \/ Midnight

\* sends and regenerate requests that overlap, while sessions are created
\* and selected
NextRace ==
  \/ LoadEffect
  \/ WelcomeEffect
  \/ CreateNewChat
  \/ LoadChatSession
  \/ SendMessage
  \/ SendValidated
  \/ ReplyArrives
  \/ ReplyFails
  \/ TypingDone
  \/ UsageReported
  \/ Regenerate
  \/ RegenArrives
  \/ RegenFails
  \/ RegenDone

\* attaching documents to the message that is being written
NextDocs ==
  \/ LoadEffect
  \/ HandleDocumentSelect
  \/ ProcessFiles
  \/ ExtractionSettles
  \/ HandleRemoveDocument

\* the first send of a user who has no session
NextNoSession ==
  \/ LoadEffect
  \/ SendWithoutSession
  \/ WelcomeEffect
  \/ SendValidated
  \/ ReplyArrives
  \/ ReplyFails
  \/ TypingDone
  \/ UsageReported
  \/ Midnight

Spec == Init /\ [][Next]_vars
SpecNoSession == InitNoSession /\ [][NextNoSession]_vars
SpecDocs == InitDocs /\ [][NextDocs]_vars
SpecRace == InitRace /\ [][NextRace]_vars
SpecRegen == InitRegen /\ [][NextRegen]_vars
SpecFaulty == InitFaulty /\ [][Next]_vars
SpecCap == InitCap /\ [][NextCap]_vars
SpecQuota == InitQuotaTracker /\ [][NextQuota]_vars
SpecViews == InitQuotaTracker /\ [][NextViews]_vars
SpecTwo == InitTwo /\ [][NextTwo]_vars
SpecNoUser == InitNoUser /\ [][NextNoUser]_vars
SpecChat == InitController /\ [][NextChat]_vars

(* ------------------------- session store: properties -------------------- *)
HasUser(messages) == LastUserIndex(messages) >= 0

LastN(seq, n) == SubSeq(seq, Len(seq) - n + 1, Len(seq))

\* C1: a session that received more than 200 messages, all through addMessage,
\* holds exactly 200 messages, the last 200 appended, in the order of appending.
C1_FifoCap ==
  \A id \in DOMAIN chatSessions :
    (appended[id].onlyAppends /\ Len(appended[id].msgs) > MAX_MESSAGES_PER_CHAT)
      => /\ Len(chatSessions[id].messages) = MAX_MESSAGES_PER_CHAT
         /\ chatSessions[id].messages = LastN(appended[id].msgs, MAX_MESSAGES_PER_CHAT)

\* an append of this run took a session past 200 appended messages
C1_Witness ==
  /\ lastOp.op = "add" /\ lastOp.applied
  /\ currentChatId \in DOMAIN chatSessions
  /\ appended[currentChatId].onlyAppends
  /\ Len(appended[currentChatId].msgs) > MAX_MESSAGES_PER_CHAT
  /\ chatSessions[currentChatId].messages[MAX_MESSAGES_PER_CHAT].id = nextId - 1

\* C2: whatever operations ran, no session holds more than 200 messages.
C2_CapAlways ==
  \A id \in DOMAIN chatSessions :
    Len(chatSessions[id].messages) <= MAX_MESSAGES_PER_CHAT

ReplaceStep == lastOp'.op = "replace" /\ lastOp'.applied

\* C3: replaceLastAssistantMessage on a session with a user message keeps the
\* messages up to the last user message and leaves exactly one message after
\* it, an assistant message carrying the new text; applied to a session that
\* already ends that way it keeps the length and rewrites the text.
C3_Regenerate ==
  [][(ReplaceStep /\ HasUser(chatSessions[currentChatId].messages)) =>
       LET pre == chatSessions[currentChatId].messages
           post == chatSessions'[currentChatId].messages
           k == LastUserIndex(pre) + 1
       IN  /\ Len(post) = k + 1
           /\ SubSeq(post, 1, k) = SubSeq(pre, 1, k)
           /\ ~post[k + 1].isUser
           /\ post[k + 1].message = lastOp'.message
           /\ (lastOp.op = "replace" /\ lastOp.applied) =>
                /\ Len(post) = Len(pre)
                /\ \A i \in 1..Len(pre) : post[i].id = pre[i].id]_vars

\* a question with two answers was collapsed to the question and the new text
C3_Witness ==
  /\ lastOp.op = "replace" /\ lastOp.applied /\ lastOp.message = "r2"
  /\ currentChatId = ChatId(0)
  /\ currentChatId \in DOMAIN chatSessions
  /\ LET m == chatSessions[currentChatId].messages
     IN  /\ Len(m) = 2
         /\ m[1].isUser /\ m[1].message = "q"
         /\ ~m[2].isUser /\ m[2].message = "r2"

\* a session as createNewChat made it, possibly greeted by the assistant
Fresh(session) ==
  /\ session.title = NewChatTitle
  /\ ~session.isCustomTitle
  /\ ~HasUser(session.messages)

CreatedFresh ==
  lastOp.op = "create" =>
    /\ chatSessions[lastOp.chat].title = NewChatTitle
    /\ chatSessions[lastOp.chat].isCustomTitle = FALSE

FirstUserStep ==
  /\ lastOp'.op = "add" /\ lastOp'.applied /\ lastOp'.isUser
  /\ Fresh(chatSessions[currentChatId])

TitleOf(message) ==
  IF Len(message) <= TitleMax THEN message
  ELSE SubSeq(message, 1, TitleKeep) \o "..."

\* C4 as stated: a created session is titled "New Chat" and not custom, and
\* its first user message becomes the title, verbatim up to 50 characters,
\* else its first 47 characters and "...".
C4_TitleAnyText ==
  /\ []CreatedFresh
  /\ [][FirstUserStep =>
          chatSessions'[currentChatId].title = TitleOf(lastOp'.message)]_vars

\* C4 amended: the same for a first user message that is not blank; a blank
\* one leaves the title "New Chat".
C4_Title ==
  /\ []CreatedFresh
  /\ [][FirstUserStep =>
          chatSessions'[currentChatId].title =
            IF Trim(lastOp'.message) # "" THEN TitleOf(lastOp'.message)
            ELSE NewChatTitle]_vars

\* the first question of a session, 51 characters long, gave a title of 50
C4_Witness ==
  /\ lastOp.op = "add" /\ lastOp.applied /\ lastOp.isUser
  /\ lastOp.message = Text51
  /\ currentChatId \in DOMAIN chatSessions
  /\ Len(chatSessions[currentChatId].messages) = 1
  /\ chatSessions[currentChatId].title = Repeat("y", TitleKeep) \o "..."
  /\ Len(chatSessions[currentChatId].title) = TitleMax

RenameStep == lastOp'.op = "rename" /\ lastOp'.applied

\* C5: renameChatSession sets the trimmed title, or "Untitled Chat" for a blank
\* one, and isCustomTitle; a custom title is not changed by addMessage or
\* replaceLastAssistantMessage, and isCustomTitle never goes back to false.
C5_CustomTitleKept ==
  /\ [][RenameStep =>
          /\ chatSessions'[lastOp'.chat].isCustomTitle
          /\ chatSessions'[lastOp'.chat].title =
               IF Trim(lastOp'.newTitle) = "" THEN UntitledTitle
               ELSE Trim(lastOp'.newTitle)]_vars
  /\ [][\A id \in DOMAIN chatSessions \cap DOMAIN chatSessions' :
          chatSessions[id].isCustomTitle =>
            /\ chatSessions'[id].isCustomTitle
            /\ lastOp'.op \in {"add", "replace"} =>
                 chatSessions'[id].title = chatSessions[id].title]_vars

\* a session renamed to "New Chat" received a question and kept its title
C5_Witness ==
  /\ lastOp.op = "add" /\ lastOp.applied /\ lastOp.isUser
  /\ Trim(lastOp.message) # ""
  /\ currentChatId \in DOMAIN chatSessions
  /\ chatSessions[currentChatId].isCustomTitle
  /\ chatSessions[currentChatId].title = NewChatTitle

MutatingOps == {"create", "add", "delete", "rename", "replace", "clear"}

\* the persisted map and the in-memory map are the same JSON value
SameView == Persisted = Stringify(chatSessions)

\* C10 as stated: once the store is loaded the persisted map equals the
\* in-memory map in every state, also when a write has failed.
C10_NeverDiverge == pc = "ready" => SameView

\* C10 amended: after an operation whose write succeeded (or clearAll) the
\* persisted map equals the in-memory map.
C10_SameAfterWrite ==
  (lastOp.op \in MutatingOps /\ lastOp.wrote = "ok") => SameView

\* a write succeeded after an earlier one had failed
C10_Witness ==
  /\ lastOp.op \in MutatingOps \ {"clear"}
  /\ lastOp.wrote = "ok"
  /\ failuresLeft < MaxWriteFailures
  /\ DOMAIN chatSessions # {}

(* ------------------------- quota tracker: properties --------------------- *)
AllZero(stored) == HasStoredData(stored) /\ \A r \in Roles : stored.usage[r] = 0

\* C6: getRateLimitInfo on a record dated another day returns usedToday = 0,
\* leaves every role's count at 0 and dates the record today.
C6_DayReset ==
  (/\ lastCall.op = "getStatus"
   /\ HasStoredData(lastCall.pre)
   /\ lastCall.pre.date # lastCall.day)
    => /\ lastCall.info.usedToday = 0
       /\ AllZero(rateLimit)
       /\ \A r \in Roles : RateLimitInfo(rateLimit, r).usedToday = 0
       /\ rateLimit.date = lastCall.day

\* the user role had used 30 on the day before, on the same device
C6_Witness ==
  /\ lastCall.op = "getStatus"
  /\ HasStoredData(lastCall.pre)
  /\ lastCall.pre.date # lastCall.day
  /\ lastCall.pre.deviceId = lastCall.deviceId
  /\ lastCall.pre.usage["user"] = 30
  /\ lastCall.role = "user"

\* C7: getRateLimitInfo on a record of another device id leaves every role's
\* count at 0 and stores the current device id.
C7_DeviceReset ==
  (/\ lastCall.op = "getStatus"
   /\ HasStoredData(lastCall.pre)
   /\ lastCall.pre.deviceId # lastCall.deviceId)
    => /\ AllZero(rateLimit)
       /\ lastCall.info.usedToday = 0
       /\ rateLimit.deviceId = lastCall.deviceId

\* the record was of device dA and of today, the device id is now dB
C7_Witness ==
  /\ lastCall.op = "getStatus"
  /\ HasStoredData(lastCall.pre)
  /\ lastCall.pre.deviceId = "dA"
  /\ lastCall.deviceId = "dB"
  /\ lastCall.pre.date = lastCall.day
  /\ lastCall.pre.usage["beta"] > 0
  /\ rateLimit.deviceId = "dB"

\* C8: canSendMessage answers true for a role whose dailyLimit is -1, whatever
\* was recorded.
C8_UnlimitedNeverBlocks ==
  (lastCall.op = "canSend" /\ DailyLimit[lastCall.role] = Unlimited)
    => lastCall.result = TRUE

\* the admin role was asked after more sends than a limited role may make
C8_Witness ==
  /\ lastCall.op = "canSend"
  /\ lastCall.role = "admin"
  /\ lastCall.result = TRUE
  /\ sends > 0
  /\ HasStoredData(rateLimit)
  /\ rateLimit.usage["admin"] > 35
  /\ rateLimit.usage["user"] >= 30

\* C9: remaining is dailyLimit - usedToday, floored at 0, for a limited role
\* and -1 for an unlimited one; canSendMessage answers true exactly when the
\* role is unlimited or has not used up its limit.
C9_Remaining ==
  lastCall.op \in {"getStatus", "canSend"} =>
    LET role == lastCall.role
        info == lastCall.info
        used == rateLimit.usage[role]
        limit == DailyLimit[role]
    IN  /\ info.usedToday = used
        /\ info.dailyLimit = limit
        /\ IF limit = Unlimited
           THEN info.remaining = 0 - 1
           ELSE /\ info.remaining >= 0
                /\ used <= limit => info.remaining + used = limit
                /\ used >= limit => info.remaining = 0
        /\ lastCall.op = "canSend" =>
             (lastCall.result <=> (limit = Unlimited \/ info.remaining > 0))

\* a limited role that has used more than its limit has 0 remaining
C9_Witness ==
  /\ lastCall.op = "getStatus"
  /\ lastCall.info.dailyLimit # Unlimited
  /\ lastCall.info.usedToday > lastCall.info.dailyLimit
  /\ lastCall.info.remaining = 0

(* ------------------------- C11 ------------------------------------------ *)
DeleteCurrentStep == lastOp'.op = "delete" /\ lastOp'.chat = currentChatId

TrackerCalls == {"getStatus", "canSend", "recordSend"}

CurrentDevice == GetDeviceId(deviceKey, fingerprint)

\* C14: a call of getStatus, canSend or recordSend that finds the usage record
\* missing or unreadable completes, counts from 0 and leaves a fresh record
\* of today and of the current device: all counters 0 after getStatus and
\* canSend (which then allows the send), the sender's counter 1 after recordSend.
C14_MissingRecord ==
  [][(lastCall'.op \in TrackerCalls /\ ~HasStoredData(rateLimit)) =>
       /\ rateLimit'.kind = "record"
       /\ rateLimit'.date = today
       /\ rateLimit'.deviceId = CurrentDevice
       /\ \A r \in Roles :
            rateLimit'.usage[r] =
              IF lastCall'.op = "recordSend" /\ r = lastCall'.role THEN 1 ELSE 0
       /\ lastCall'.op # "recordSend" =>
            /\ lastCall'.info.usedToday = 0
            /\ lastCall'.info.remaining =
                 IF lastCall'.role = "admin" THEN 0 - 1 ELSE 30
       /\ lastCall'.op = "canSend" => lastCall'.result]_vars

\* recordSend found an unreadable record and left a record counting one send
C14_Witness ==
  /\ lastCall.op = "recordSend"
  /\ lastCall.pre = RateLimitCorrupt
  /\ rateLimit.kind = "record"
  /\ rateLimit.usage[lastCall.role] = 1

(* ------------------------- C16 ------------------------------------------ *)
\* the stored record is of today and of the current device
SameDayAndDevice ==
  /\ HasStoredData(rateLimit)
  /\ rateLimit.date = today
  /\ rateLimit.deviceId = CurrentDevice

\* C16: recordSend(role) on a record of today and of this device adds exactly
\* 1 to the counter of that role and keeps the other counters, the date and
\* the device id; a getStatus of that role that follows reads the new value.
C16_RecordSend ==
  [][/\ (lastCall'.op = "recordSend" /\ SameDayAndDevice) =>
          /\ rateLimit'.kind = "record"
          /\ \A r \in Roles :
               rateLimit'.usage[r] =
                 rateLimit.usage[r] + (IF r = lastCall'.role THEN 1 ELSE 0)
          /\ rateLimit'.date = rateLimit.date
          /\ rateLimit'.deviceId = rateLimit.deviceId
     /\ (/\ lastCall.op = "recordSend"
         /\ lastCall'.op = "getStatus"
         /\ lastCall'.role = lastCall.role
         /\ SameDayAndDevice) =>
          /\ lastCall'.info.usedToday = rateLimit.usage[lastCall.role]
          /\ rateLimit' = rateLimit]_vars

\* a send of role user was recorded on the stored record of 29 sends, and the
\* getStatus that followed read 30
C16_Witness ==
  /\ lastCall.op = "getStatus"
  /\ lastCall.role = "user"
  /\ lastCall.pre.kind = "record"
  /\ lastCall.pre.usage = [UsedBefore EXCEPT !["user"] = 30]
  /\ lastCall.info.usedToday = 30
  /\ sends = 1

(* ------------------------- C15 ------------------------------------------ *)
\* C15: when the value stored under the session-map key cannot be parsed,
\* the load effect ends without an error and leaves zero sessions and no
\* current session.
C15_InvalidStore ==
  [][(lastOp'.op = "load" /\ storage = StorageInvalid) =>
       /\ ~lastOp'.error
       /\ chatSessions' = EmptyMap
       /\ currentChatId' = NoChat]_vars

\* the load effect ran on an unparsable value
C15_Witness ==
  /\ lastOp.op = "load"
  /\ pc = "ready"
  /\ storage = StorageInvalid
  /\ DOMAIN chatSessions = {}
  /\ currentChatId = NoChat

(* ------------------------- C18 ------------------------------------------ *)
\* replaceLastAssistantMessage is called on a current session without a
\* user message
ReplaceNoUserStep ==
  /\ lastOp'.op = "replace"
  /\ currentChatId \in DOMAIN chatSessions
  /\ ~HasUser(chatSessions[currentChatId].messages)

\* C18 as claimed: on a session without a user message the operation keeps
\* the messages and adds an assistant message with the new text at the end.
C18_AppendsWhenNoUser ==
  [][ReplaceNoUserStep =>
       LET old == chatSessions[currentChatId].messages
           new == chatSessions'[currentChatId].messages
       IN  /\ Len(new) = Len(old) + 1
           /\ SubSeq(new, 1, Len(old)) = old
           /\ ~new[Len(new)].isUser
           /\ new[Len(new)].message = lastOp'.message]_vars

\* C18: on a session without a user message the operation leaves an empty
\* session as it is, and turns a session of assistant messages into its first
\* message alone, carrying the new text and the time of the call.
C18_NoUserCollapses ==
  [][ReplaceNoUserStep =>
       LET old == chatSessions[currentChatId].messages
           new == chatSessions'[currentChatId].messages
       IN  IF Len(old) = 0
           THEN /\ chatSessions' = chatSessions
                /\ storage' = storage
           ELSE /\ Len(new) = 1
                /\ new[1].id = old[1].id
                /\ ~new[1].isUser
                /\ new[1].message = lastOp'.message
                /\ new[1].timestamp = now']_vars

\* the stored session of two assistant messages was replaced by one message
C18_Witness ==
  /\ lastOp.op = "replace"
  /\ lastOp.applied
  /\ lastOp.chat = ChatId(0)
  /\ ChatId(0) \in DOMAIN chatSessions
  /\ Len(appended[ChatId(0)].msgs) = Len(AssistantOnly)
  /\ \A k \in 1..Len(AssistantOnly) : ~appended[ChatId(0)].msgs[k].isUser
  /\ Len(chatSessions[ChatId(0)].messages) = 1
  /\ chatSessions[ChatId(0)].messages[1].message = lastOp.message

(* ------------------------- C19 ------------------------------------------ *)
\* C19 as claimed: a user message appended to a session that already holds a
\* user message leaves the title unchanged.
C19_TitleOnlyFirst ==
  [][(/\ lastOp'.op = "add"
      /\ lastOp'.applied
      /\ lastOp'.isUser
      /\ HasUser(chatSessions[lastOp'.chat].messages)) =>
       chatSessions'[lastOp'.chat].title = chatSessions[lastOp'.chat].title]_vars

(* ------------------------- C20 ------------------------------------------ *)
TouchingOps == {"add", "replace", "rename"}

TouchStep(ops) == lastOp'.op \in ops /\ lastOp'.applied

\* C20 as claimed: addMessage, replaceLastAssistantMessage and
\* renameChatSession each set the session's timestamp to the time of the call.
C20_EveryMutation ==
  [][TouchStep(TouchingOps) =>
       chatSessions'[lastOp'.chat].timestamp = now']_vars

\* C20: addMessage and replaceLastAssistantMessage set the session's
\* timestamp to the time of the call; renameChatSession leaves it as it was.
C20_Timestamp ==
  [][/\ TouchStep({"add", "replace"}) =>
          chatSessions'[lastOp'.chat].timestamp = now'
     /\ TouchStep({"rename"}) =>
          chatSessions'[lastOp'.chat].timestamp = chatSessions[lastOp'.chat].timestamp]_vars

\* a session of an earlier time took a message at time 1
C20_Witness ==
  /\ lastOp.op = "add"
  /\ lastOp.applied
  /\ now = 1
  /\ chatSessions[lastOp.chat].timestamp = 1
  /\ \E k \in 1..Len(chatSessions[lastOp.chat].messages) :
       chatSessions[lastOp.chat].messages[k].timestamp < 1

(* ------------------------- C12 ------------------------------------------ *)
\* the active role has used up its daily quota and no personal key is in use
QuotaExhausted ==
  /\ ~usingPersonalKey
  /\ currentUserRole # "admin"
  /\ SameDayAndDevice
  /\ rateLimit.usage[currentUserRole] >= 30

\* C12: a send attempted while the active role's quota is exhausted and no
\* personal key is in use appends no message to any session, issues no remote
\* completion call and leaves every role's usage counter as it was.
C12_BlockedSend ==
  [][(lastOp'.op = "send" /\ QuotaExhausted) =>
       /\ chatSessions' = chatSessions
       /\ storage' = storage
       /\ inflight' = inflight
       /\ calls' = calls
       /\ isLoading' = isLoading
       /\ rateLimit' = rateLimit]_vars

\* role user sent its 30th message of the day and its next attempt was refused
C12_Witness ==
  /\ lastOp.op = "send"
  /\ lastOp.outcome = "blocked"
  /\ currentUserRole = "user"
  /\ rateLimit.kind = "record"
  /\ rateLimit.usage["user"] = 30
  /\ sends = 1
  /\ inflight = <<>>

(* ------------------------- C13 ------------------------------------------ *)
\* the remote completion call of a send failed with an error of the network
\* or the service
FailStep == lastOp'.op = "failed" /\ lastOp'.error # ThrownError(ApiKeyError)

\* the session took one more message, an assistant message of that text
TookAssistant(cid, text) ==
  /\ cid \in DOMAIN chatSessions
  /\ cid \in DOMAIN chatSessions'
  /\ LET old == chatSessions[cid].messages
         new == chatSessions'[cid].messages
     IN  /\ Len(new) = Len(old) + 1
         /\ SubSeq(new, 1, Len(old)) = old
         /\ ~new[Len(new)].isUser
         /\ new[Len(new)].message = text
  /\ \A other \in DOMAIN chatSessions \ {cid} :
       other \in DOMAIN chatSessions' /\ chatSessions'[other] = chatSessions[other]

\* the error's own message, or the generic text for a failure without one
ShownText(error) ==
  IF error = ThrownValue THEN "Xin loi, toi gap loi. Vui long thu lai." ELSE error.message

\* the send is over and no counter moved
NothingCounted ==
  /\ rateLimit' = rateLimit
  /\ sends' = sends
  /\ Len(inflight') = Len(inflight) - 1

\* C13 as claimed: when the remote call of a send fails, exactly one assistant
\* message with the error's message (or the generic text) is appended to the
\* conversation of the send, and no usage counter is incremented.
C13_ErrorAlwaysAppended ==
  [][FailStep =>
       /\ TookAssistant(lastOp'.target, ShownText(lastOp'.error))
       /\ NothingCounted]_vars

\* C13: when the remote call of a send fails, the conversation of the send,
\* if it still exists, takes exactly one assistant message with the error's
\* message (or the generic text); if it was deleted or cleared while the call
\* was under way, no session changes; no usage counter is incremented.
C13_ErrorAppended ==
  [][FailStep =>
       /\ IF lastOp'.target \in DOMAIN chatSessions
          THEN TookAssistant(lastOp'.target, ShownText(lastOp'.error))
          ELSE chatSessions' = chatSessions /\ storage' = storage
       /\ NothingCounted]_vars

\* a failure without a message left the generic text in the conversation,
\* right after the question of the send
C13_Witness ==
  /\ lastOp.op = "failed"
  /\ lastOp.error = ThrownValue
  /\ lastOp.applied
  /\ lastOp.target \in DOMAIN chatSessions
  /\ LET messages == chatSessions[lastOp.target].messages
     IN  /\ Len(messages) >= 2
         /\ messages[Len(messages)].message = FallbackText
         /\ ~messages[Len(messages)].isUser
         /\ messages[Len(messages) - 1].isUser
  /\ rateLimit = StoredRecord(UsedBefore, 0, "dA")

(* ------------------------- C17 ------------------------------------------ *)
\* the steps in which the controller calls addMessage
ControllerOps == {"welcome", "send", "validated", "failed", "typed"}

\* addMessage is called and the session it is aimed at does not resolve:
\* there is no current session, or the session of the caller is gone
UnresolvedAddStep ==
  \/ /\ lastOp'.op = "add"
     /\ ~Resolves(currentChatId)
  \/ /\ lastOp'.op \in ControllerOps
     /\ lastOp'.target # "none"
     /\ ~Resolves(lastOp'.target)

\* C17: addMessage aimed at a session that does not resolve changes neither
\* the session map, nor the current pointer, nor the persistent store, and
\* creates no session.
C17_UnresolvedNoOp ==
  [][UnresolvedAddStep =>
       /\ chatSessions' = chatSessions
       /\ currentChatId' = currentChatId
       /\ storage' = storage]_vars

\* the answer of a send arrived after its session was deleted, while another
\* session is current
C17_Witness ==
  /\ lastOp.op = "typed"
  /\ ~lastOp.applied
  /\ lastOp.target = ChatId(0)
  /\ ChatId(0) \notin DOMAIN chatSessions
  /\ currentChatId = ChatId(1)
  /\ storage = StorageJson(chatSessions)


(* ------------------------- C21: preview and count ----------------------- *)
\* the first 100 characters of a text, written without the program's helper
First100(text) == IF Len(text) <= 100 THEN text ELSE SubSeq(text, 1, 100)

PreviewAndCount(session) ==
  Len(session.messages) > 0 =>
    /\ session.lastMessage = First100(session.messages[Len(session.messages)].message)
    /\ session.messageCount = Len(session.messages)

\* C21: in every session that has messages, lastMessage is the first 100
\* characters of the text of the last message, and messageCount is the
\* length of the message list; after addMessage (with and without eviction
\* of the oldest message) and after replaceLastAssistantMessage alike.
C21_PreviewAndCount ==
  \A id \in DOMAIN chatSessions : PreviewAndCount(chatSessions[id])

\* a text of 101 characters was appended to a full session: the oldest
\* message was evicted and the preview is cut to 100 characters
C21_Witness ==
  /\ lastOp.op = "add" /\ lastOp.applied /\ lastOp.message = Text101
  /\ LET session == chatSessions[lastOp.chat]
     IN  /\ Len(session.messages) = MAX_MESSAGES_PER_CHAT
         /\ session.messages[1].id > 1 - MAX_MESSAGES_PER_CHAT
         /\ Len(session.lastMessage) = 100
         /\ Len(session.messages[Len(session.messages)].message) = 101

(* ------------------------- C22: reconcile first ------------------------- *)
\* the operations of the tracker that read or write the counters
CounterCalls == {"getStatus", "canSend", "recordSend", "getPercentage", "getFormatted"}

\* the counters an operation may start from: those of the stored record if
\* it is of today and of the current device, else zeros
TrustedUsage == IF SameDayAndDevice THEN rateLimit.usage ELSE ZeroUsage

\* C22: every operation of the tracker that reads or writes the counters
\* (getRateLimitInfo, canSendMessage, incrementUsage, getUsagePercentage,
\* getFormattedLimitInfo) reconciles first: when it returns, the stored
\* record is dated today and carries the current device id, and the count
\* it returns or increments is that of a record of today and this device,
\* never that of a record of another day or another device.
C22_ReconcileFirst ==
  [][lastCall'.op \in CounterCalls =>
       /\ rateLimit'.kind = "record"
       /\ rateLimit'.date = today
       /\ rateLimit'.deviceId = CurrentDevice
       /\ deviceKey' = CurrentDevice
       /\ IF lastCall'.op = "recordSend"
          THEN \A r \in Roles :
                 rateLimit'.usage[r] =
                   TrustedUsage[r] + (IF r = lastCall'.role THEN 1 ELSE 0)
          ELSE /\ rateLimit'.usage = TrustedUsage
               /\ lastCall'.info.usedToday = TrustedUsage[lastCall'.role]
       /\ lastCall'.op = "getPercentage" =>
            lastCall'.result.num * 30 =
              lastCall'.result.den *
                (IF lastCall'.role = "admin" THEN 0
                 ELSE IF TrustedUsage[lastCall'.role] >= 30 THEN 3000
                 ELSE TrustedUsage[lastCall'.role] * 100)
       /\ lastCall'.op = "getFormatted" =>
            lastCall'.result =
              (IF lastCall'.role = "admin" THEN UnlimitedText
               ELSE ToString(TrustedUsage[lastCall'.role]) \o "/30 tin nhan")]_vars

\* the percentage of role user was asked for on the day after the record of
\* 29 sends was written: it is 0, and the record is of the new day
C22_Witness ==
  /\ lastCall.op = "getPercentage"
  /\ lastCall.role = "user"
  /\ lastCall.pre.kind = "record"
  /\ lastCall.pre.usage["user"] = 29
  /\ lastCall.pre.date # lastCall.day
  /\ lastCall.result.num = 0
  /\ rateLimit.date = today

(* ------------------------- C23: message order --------------------------- *)
\* message ids are handed out in the order of creation, so a list is in
\* insertion order when its ids ascend
InOrder(messages) ==
  \A k \in 1..(Len(messages) - 1) :
    /\ messages[k].id < messages[k + 1].id
    /\ messages[k].timestamp <= messages[k + 1].timestamp

\* C23: the messages of every session are in the order in which they were
\* inserted and their timestamps never decrease along the list (the clock
\* never goes back), also after the oldest message was evicted and after
\* replaceLastAssistantMessage rewrote or inserted an assistant message
\* with a fresh timestamp.
C23_MessageOrder ==
  \A id \in DOMAIN chatSessions : InOrder(chatSessions[id].messages)

\* the clock had advanced when the answer of a full stored session was
\* regenerated: the rewritten message is the last one and the only one
\* with the new time
C23_Witness ==
  /\ lastOp.op = "replace" /\ lastOp.applied
  /\ now = 1
  /\ LET messages == chatSessions[lastOp.chat].messages
     IN  /\ Len(messages) >= MAX_MESSAGES_PER_CHAT
         /\ messages[Len(messages)].timestamp = 1
         /\ messages[Len(messages)].message = lastOp.message
         /\ messages[Len(messages) - 1].timestamp = 0

(* ------------------------- C25: the current pointer --------------------- *)
\* C25: after the load effect and after every createNewChat,
\* loadChatSession, deleteChatSession, clearAllChatSessions and addMessage
\* the current id is null or the id of a session in the map;
\* loadChatSession of an id that is not in the map and deleteChatSession of
\* a session that is not the current one leave the current id as it was.
C25_CurrentPointer ==
  [][/\ currentChatId' = NoChat \/ currentChatId' \in DOMAIN chatSessions'
     /\ (lastOp'.op = "select" /\ lastOp'.chat \notin DOMAIN chatSessions) =>
          currentChatId' = currentChatId
     /\ (lastOp'.op = "delete" /\ lastOp'.chat # currentChatId) =>
          currentChatId' = currentChatId]_vars

\* an id that is not in the map was asked for while a session was current
C25_Witness ==
  /\ lastOp.op = "select"
  /\ lastOp.chat \notin DOMAIN chatSessions
  /\ currentChatId \in DOMAIN chatSessions
  /\ Len(chatSessions[currentChatId].messages) > 0

(* ------------------------- C26: the limit ------------------------------- *)
LimitedRoles == {"user", "beta"}

\* C26: for a limited role without a personal key the stored count of the
\* day never exceeds the daily limit of 30, whatever sends and regenerate
\* requests were made and whenever their replies were recorded.
C26_WithinLimit ==
  (~usingPersonalKey /\ currentUserRole \in LimitedRoles /\ HasStoredData(rateLimit))
    => rateLimit.usage[currentUserRole] <= 30

(* ------------------------- C30: personal key ---------------------------- *)
\* C30: while a personal key is in use, no step of a send or of a regenerate
\* request asks the Quota Tracker anything or changes what it stores, and a
\* send is let through whatever the remaining quota is.
C30_PersonalKey ==
  [][usingPersonalKey =>
       /\ rateLimit' = rateLimit
       /\ deviceKey' = deviceKey
       /\ validationCache' = validationCache
       /\ sends' = sends
       /\ lastOp'.op # "midnight" => lastCall' = lastCall
       /\ lastOp'.op = "send" => lastOp'.outcome = "calling"
       /\ lastOp'.op \notin {"validated", "reported"}]_vars

\* with a personal key, role beta sent a message although its 30 sends of
\* the day were used up, and the reply was appended without being counted
C30_Witness ==
  /\ usingPersonalKey
  /\ currentUserRole = "beta"
  /\ lastOp.op = "typed" /\ lastOp.applied
  /\ rateLimit = StoredRecord(UsedWithin, 0, "dA")
  /\ today = 0
  /\ lastCall.op = "none"

(* ------------------------- C27: one send at a time ---------------------- *)
\* a send whose user message was appended and whose reply was not
Pending(h) == h.kind = "send" /\ h.stage \in {"calling", "typing"}

\* this step appends the user message of a send
UserMessageStep ==
  \/ lastOp'.op = "send" /\ lastOp'.outcome = "calling"
  \/ lastOp'.op = "validated" /\ lastOp'.target # "none"

\* this step appends the reply or the error message of a send to its session
ReplyStep == lastOp'.op \in {"typed", "failed"} /\ lastOp'.applied

\* C27: while a send is pending, from the append of its user message until
\* its reply or error message was appended, no other user message is
\* appended; the reply of a send is appended directly after the user
\* message of that send.
C27_OneSendAtATime ==
  [][/\ UserMessageStep => \A i \in DOMAIN inflight : ~Pending(inflight[i])
     /\ ReplyStep =>
          LET messages == chatSessions'[lastOp'.target].messages
          IN  /\ Len(messages) >= 2
              /\ messages[Len(messages) - 1].id = lastOp'.userId]_vars

(* ------------------------- C28: regenerate keeps its question ----------- *)
\* the message with this id is followed directly by an assistant message
\* with this text
AnsweredBy(messages, userId, text) ==
  \E k \in 1..(Len(messages) - 1) :
    /\ messages[k].id = userId
    /\ ~messages[k + 1].isUser
    /\ messages[k + 1].message = text

\* C28: when the delayed replacement of a regenerate request is applied,
\* the regenerated text stands directly after the user message the request
\* was issued for, whatever was sent or selected in the meantime.
C28_ReplacesOwnReply ==
  [][(lastOp'.op = "regenerated" /\ lastOp'.applied) =>
       AnsweredBy(chatSessions'[lastOp'.target].messages, lastOp'.userId,
                  lastOp'.message)]_vars

(* ------------------------- C24: document batches ------------------------ *)
\* the documents attached by this step
Attached == SubSeq(documents', Len(documents) + 1, Len(documents'))

\* C24: when the extraction of a batch of files has ended, every file of
\* the batch whose extraction succeeded is among the attached documents,
\* whether or not the extraction of another file of the batch failed.
C24_FailureIsolated ==
  [][lastOp'.op = "extracted" =>
       \A k \in DOMAIN lastOp'.files :
         ExtractTextFromDocument(lastOp'.files[k]).ok =>
           \E j \in DOMAIN Attached : Attached[j].fileName = lastOp'.files[k].name]_vars

(* ------------------------- C29: the implicit session -------------------- *)
\* a user message with this text is in the list
HoldsUserMessage(messages, text) ==
  \E k \in DOMAIN messages : messages[k].isUser /\ messages[k].message = text

====
